---------------------------- MODULE Spec2Model ----------------------------
(***************************************************************************)
(* Harmonia / chordfinder: key-aware note spelling (src/src/chord-utils.js) *)
(* and harmonic-function analysis (chord-function.js, kept here as         *)
(* src/unnamed/part_001, second revision, lines 196-574).                  *)
(*                                                                         *)
(* JavaScript strings are modelled as sequences of one-character strings,  *)
(* so that parsing, upper-casing and concatenation are computed and not    *)
(* assumed: "Bb" is <<"B","b">>.                                           *)
(***************************************************************************)
EXTENDS Integers, Sequences, FiniteSets, TLC

VARIABLES
  KEY_DEFINITIONS,  \* chord-utils.js:60 the module-level catalogue (array of objects)
  noNoteChroma,     \* what the installed tonal build reports as chroma of a non-note
  op,               \* the exported function that has been applied ("init" before)
  args,             \* the arguments of the call
  result,           \* the value returned
  state,            \* main.js:513 the page's state object
  storage,          \* main.js:512 window.localStorage, one entry per STORAGE_KEYS member
  ui,               \* main.js:511 what the page shows: input box, root select, output,
                    \* and the detector's list that the shown candidates were cut from
  edits             \* how many typing or list-editing events, and how many setting
                    \* events, the user has made

vars == <<KEY_DEFINITIONS, noNoteChroma, op, args, result, state, storage, ui, edits>>

(***************************************************************************)
(* Bounds of the model.                                                    *)
(***************************************************************************)
MaxAcc == 2      \* note names carry at most this many sharps or flats
MaxNotes == 2    \* longest list handed to the list spellers
MaxEdits == 2    \* input and list-editing events of one session
MaxSettings == 2 \* clicks on a setting or on a candidate in one session
MaxTimers == 2   \* hide timers of the floating window pending at once
MaxBeside == 0   \* entries one of the two stored lists holds while the other grows
MaxProgression == 2  \* chords added to the current progression before it is cleared

(***************************************************************************)
(* JavaScript values that are not strings.                                 *)
(***************************************************************************)
JsUndefined == <<"undefined">>
JsNull == <<"null">>
JsNaN == <<"NaN">>
Num(n) == <<"number", n>>
IsNum(v) == Len(v) = 2 /\ v[1] = "number"
\* an object value; JsNull, JsUndefined and strings are tuples too, so a value
\* that is an object or null can be compared with JsNull
Obj(fields) == <<"object", fields>>
IsObj(v) == Len(v) = 2 /\ v[1] = "object"

Range(s) == {s[i] : i \in DOMAIN s}

\* arr[idx] for a JavaScript index value: undefined outside the array
ArrayAt(arr, idx) ==
  IF IsNum(idx) /\ idx[2] >= 0 /\ idx[2] < Len(arr) THEN arr[idx[2] + 1] ELSE JsUndefined

(***************************************************************************)
(* Characters and strings.                                                 *)
(***************************************************************************)
LowerAlphabet ==
  <<"a","b","c","d","e","f","g","h","i","j","k","l","m",
    "n","o","p","q","r","s","t","u","v","w","x","y","z">>
UpperAlphabet ==
  <<"A","B","C","D","E","F","G","H","I","J","K","L","M",
    "N","O","P","Q","R","S","T","U","V","W","X","Y","Z">>
Digits == <<"0","1","2","3","4","5","6","7","8","9">>

IndexIn(c, alphabet) ==
  IF \E k \in DOMAIN alphabet : alphabet[k] = c
    THEN CHOOSE k \in DOMAIN alphabet : alphabet[k] = c
    ELSE 0

\* String.prototype.toUpperCase / toLowerCase
toUpperCase(s) ==
  [i \in 1..Len(s) |->
     IF IndexIn(s[i], LowerAlphabet) > 0 THEN UpperAlphabet[IndexIn(s[i], LowerAlphabet)]
     ELSE s[i]]
toLowerCase(s) ==
  [i \in 1..Len(s) |->
     IF IndexIn(s[i], UpperAlphabet) > 0 THEN LowerAlphabet[IndexIn(s[i], UpperAlphabet)]
     ELSE s[i]]

\* length of the run of characters of `set` in s starting at position p
RECURSIVE RunLen(_, _, _)
RunLen(s, p, set) ==
  IF p <= Len(s) /\ s[p] \in set THEN 1 + RunLen(s, p + 1, set) ELSE 0

\* does `sub` occur in s (String.prototype.includes)
includes(s, sub) ==
  \E i \in 1..(Len(s) - Len(sub) + 1) : SubSeq(s, i, i + Len(sub) - 1) = sub

\* decimal digits of a natural number, and back
RECURSIVE NatToStr(_)
NatToStr(n) ==
  IF n < 10 THEN <<Digits[n + 1]>> ELSE NatToStr(n \div 10) \o <<Digits[(n % 10) + 1]>>
RECURSIVE StrToNat(_)
StrToNat(s) ==
  IF s = <<>> THEN 0
  ELSE 10 * StrToNat(SubSeq(s, 1, Len(s) - 1)) + (IndexIn(s[Len(s)], Digits) - 1)

\* what a template literal `${v}` writes for a value
TemplateStr(v) ==
  IF v = JsUndefined THEN <<"u","n","d","e","f","i","n","e","d">>
  ELSE IF v = JsNull THEN <<"n","u","l","l">>
  ELSE IF v = JsNaN THEN <<"N","a","N">>
  ELSE IF IsNum(v)
    THEN (IF v[2] < 0 THEN <<"-">> \o NatToStr(0 - v[2]) ELSE NatToStr(v[2]))
  ELSE v

\* JavaScript truthiness of a string-or-undefined value
Truthy(v) == v # JsUndefined /\ v # JsNull /\ v # JsNaN /\ v # <<>>

(***************************************************************************)
(* tonal's Note.get (imported at chord-utils.js:1).  The name is tokenized *)
(* into an optional letter a-g or A-G, a run of one accidental sign        *)
(* (sharps, flats or x), an optional minus with a run of digits, white     *)
(* space, and the rest; a name with no letter or with a rest is no note.   *)
(***************************************************************************)
NoteLetterChars == {"a","b","c","d","e","f","g","A","B","C","D","E","F","G"}
DigitChars == Range(Digits)
SEMI == <<0, 2, 4, 5, 7, 9, 11>>

\* lengths of the four leading groups of the pattern, each starting at p
LetterLen(str) == IF Len(str) > 0 /\ str[1] \in NoteLetterChars THEN 1 ELSE 0
AccLen(str, p) ==
  IF p <= Len(str) /\ str[p] \in {"#", "b", "x"} THEN RunLen(str, p, {str[p]}) ELSE 0
OctLen(str, p) ==
  IF p <= Len(str) /\ str[p] = "-" THEN 1 + RunLen(str, p + 1, DigitChars)
  ELSE RunLen(str, p, DigitChars)

\* acc.replace(/x/g, "##")
ReplaceX(acc) == IF acc # <<>> /\ acc[1] = "x" THEN [i \in 1..(2 * Len(acc)) |-> "#"] ELSE acc

TokensAt(str, nLetter, nAcc, nOct, nSpace) ==
  [letter |-> toUpperCase(SubSeq(str, 1, nLetter)),
   acc    |-> ReplaceX(SubSeq(str, nLetter + 1, nLetter + nAcc)),
   oct    |-> SubSeq(str, nLetter + nAcc + 1, nLetter + nAcc + nOct),
   rest   |-> SubSeq(str, nLetter + nAcc + nOct + nSpace + 1, Len(str))]
TokensAfterOct(str, nLetter, nAcc, nOct) ==
  TokensAt(str, nLetter, nAcc, nOct, RunLen(str, nLetter + nAcc + nOct + 1, {" "}))
TokensAfterAcc(str, nLetter, nAcc) ==
  TokensAfterOct(str, nLetter, nAcc, OctLen(str, nLetter + nAcc + 1))
TokensAfterLetter(str, nLetter) ==
  TokensAfterAcc(str, nLetter, AccLen(str, nLetter + 1))
tokenizeNote(str) == TokensAfterLetter(str, LetterLen(str))

\* the step 0..6 of a letter, C = 0: (letter.charCodeAt(0) + 3) % 7
StepOf(letter) == (IndexIn(letter[1], UpperAlphabet) + 64 + 3) % 7

accToAlt(acc) == IF acc = <<>> THEN 0 ELSE IF acc[1] = "b" THEN 0 - Len(acc) ELSE Len(acc)

\* +octStr
OctValue(octStr) ==
  IF octStr = <<>> THEN JsUndefined
  ELSE IF octStr = <<"-">> THEN JsNaN
  ELSE IF octStr[1] = "-" THEN Num(0 - StrToNat(Tail(octStr)))
  ELSE Num(StrToNat(octStr))

\* the object tonal returns for a name that is no note: it has no octave, and
\* its chroma is undefined or NaN depending on the tonal release installed
NoNote ==
  [empty |-> TRUE, name |-> <<>>, pc |-> <<>>, letter |-> <<>>, acc |-> <<>>,
   alt |-> JsNaN, chroma |-> noNoteChroma, oct |-> JsUndefined, height |-> JsNaN]

NoteOfParts(t, semi, alt, oct) ==
  [empty  |-> FALSE,
   name   |-> t.letter \o t.acc \o t.oct,
   pc     |-> t.letter \o t.acc,
   letter |-> t.letter,
   acc    |-> t.acc,
   alt    |-> Num(alt),
   chroma |-> Num((semi + alt + 120) % 12),
   oct    |-> oct,
   height |-> IF IsNum(oct) THEN Num(semi + alt + 12 * (oct[2] + 1))
              ELSE Num(((semi + alt + 120) % 12) - 12 * 99)]

NoteOfTokens(t) ==
  IF t.letter = <<>> \/ t.rest # <<>> THEN NoNote
  ELSE NoteOfParts(t, SEMI[StepOf(t.letter) + 1], accToAlt(t.acc), OctValue(t.oct))

NoteGet(str) == NoteOfTokens(tokenizeNote(str))

(***************************************************************************)
(* chord-utils.js: the tables.                                             *)
(***************************************************************************)
\* chord-utils.js:3
SHARP_NAMES ==
  <<<<"C">>, <<"C","#">>, <<"D">>, <<"D","#">>, <<"E">>, <<"F">>, <<"F","#">>, <<"G">>, <<"G","#">>, <<"A">>, <<"A","#">>, <<"B">>>>

\* chord-utils.js:4
FLAT_NAMES ==
  <<<<"C">>, <<"D","b">>, <<"D">>, <<"E","b">>, <<"E">>, <<"F">>, <<"G","b">>, <<"G">>, <<"A","b">>, <<"A">>, <<"B","b">>, <<"B">>>>

\* chord-utils.js:6-22
MAJOR_KEYS ==
  <<
    [id |-> <<"C">>, label |-> "C major", accidental |-> "sharp",
     scale |-> <<<<"C">>, <<"D">>, <<"E">>, <<"F">>, <<"G">>, <<"A">>, <<"B">>>>],
    [id |-> <<"G">>, label |-> "G major", accidental |-> "sharp",
     scale |-> <<<<"G">>, <<"A">>, <<"B">>, <<"C">>, <<"D">>, <<"E">>, <<"F","#">>>>],
    [id |-> <<"D">>, label |-> "D major", accidental |-> "sharp",
     scale |-> <<<<"D">>, <<"E">>, <<"F","#">>, <<"G">>, <<"A">>, <<"B">>, <<"C","#">>>>],
    [id |-> <<"A">>, label |-> "A major", accidental |-> "sharp",
     scale |-> <<<<"A">>, <<"B">>, <<"C","#">>, <<"D">>, <<"E">>, <<"F","#">>, <<"G","#">>>>],
    [id |-> <<"E">>, label |-> "E major", accidental |-> "sharp",
     scale |-> <<<<"E">>, <<"F","#">>, <<"G","#">>, <<"A">>, <<"B">>, <<"C","#">>, <<"D","#">>>>],
    [id |-> <<"B">>, label |-> "B major", accidental |-> "sharp",
     scale |-> <<<<"B">>, <<"C","#">>, <<"D","#">>, <<"E">>, <<"F","#">>, <<"G","#">>, <<"A","#">>>>],
    [id |-> <<"F","#">>, label |-> "F# major", accidental |-> "sharp",
     scale |-> <<<<"F","#">>, <<"G","#">>, <<"A","#">>, <<"B">>, <<"C","#">>, <<"D","#">>, <<"E","#">>>>],
    [id |-> <<"C","#">>, label |-> "C# major", accidental |-> "sharp",
     scale |-> <<<<"C","#">>, <<"D","#">>, <<"E","#">>, <<"F","#">>, <<"G","#">>, <<"A","#">>, <<"B","#">>>>],
    [id |-> <<"F">>, label |-> "F major", accidental |-> "flat",
     scale |-> <<<<"F">>, <<"G">>, <<"A">>, <<"B","b">>, <<"C">>, <<"D">>, <<"E">>>>],
    [id |-> <<"B","b">>, label |-> "Bb major", accidental |-> "flat",
     scale |-> <<<<"B","b">>, <<"C">>, <<"D">>, <<"E","b">>, <<"F">>, <<"G">>, <<"A">>>>],
    [id |-> <<"E","b">>, label |-> "Eb major", accidental |-> "flat",
     scale |-> <<<<"E","b">>, <<"F">>, <<"G">>, <<"A","b">>, <<"B","b">>, <<"C">>, <<"D">>>>],
    [id |-> <<"A","b">>, label |-> "Ab major", accidental |-> "flat",
     scale |-> <<<<"A","b">>, <<"B","b">>, <<"C">>, <<"D","b">>, <<"E","b">>, <<"F">>, <<"G">>>>],
    [id |-> <<"D","b">>, label |-> "Db major", accidental |-> "flat",
     scale |-> <<<<"D","b">>, <<"E","b">>, <<"F">>, <<"G","b">>, <<"A","b">>, <<"B","b">>, <<"C">>>>],
    [id |-> <<"G","b">>, label |-> "Gb major", accidental |-> "flat",
     scale |-> <<<<"G","b">>, <<"A","b">>, <<"B","b">>, <<"C","b">>, <<"D","b">>, <<"E","b">>, <<"F">>>>],
    [id |-> <<"C","b">>, label |-> "Cb major", accidental |-> "flat",
     scale |-> <<<<"C","b">>, <<"D","b">>, <<"E","b">>, <<"F","b">>, <<"G","b">>, <<"A","b">>, <<"B","b">>>>]
  >>

\* chord-utils.js:24-40
MINOR_KEYS ==
  <<
    [id |-> <<"A">>, label |-> "A minor", accidental |-> "sharp",
     scale |-> <<<<"A">>, <<"B">>, <<"C">>, <<"D">>, <<"E">>, <<"F">>, <<"G">>>>],
    [id |-> <<"E">>, label |-> "E minor", accidental |-> "sharp",
     scale |-> <<<<"E">>, <<"F","#">>, <<"G">>, <<"A">>, <<"B">>, <<"C">>, <<"D">>>>],
    [id |-> <<"B">>, label |-> "B minor", accidental |-> "sharp",
     scale |-> <<<<"B">>, <<"C","#">>, <<"D">>, <<"E">>, <<"F","#">>, <<"G">>, <<"A">>>>],
    [id |-> <<"F","#">>, label |-> "F# minor", accidental |-> "sharp",
     scale |-> <<<<"F","#">>, <<"G","#">>, <<"A">>, <<"B">>, <<"C","#">>, <<"D">>, <<"E">>>>],
    [id |-> <<"C","#">>, label |-> "C# minor", accidental |-> "sharp",
     scale |-> <<<<"C","#">>, <<"D","#">>, <<"E">>, <<"F","#">>, <<"G","#">>, <<"A">>, <<"B">>>>],
    [id |-> <<"G","#">>, label |-> "G# minor", accidental |-> "sharp",
     scale |-> <<<<"G","#">>, <<"A","#">>, <<"B">>, <<"C","#">>, <<"D","#">>, <<"E">>, <<"F","#">>>>],
    [id |-> <<"D","#">>, label |-> "D# minor", accidental |-> "sharp",
     scale |-> <<<<"D","#">>, <<"E","#">>, <<"F","#">>, <<"G","#">>, <<"A","#">>, <<"B">>, <<"C","#">>>>],
    [id |-> <<"A","#">>, label |-> "A# minor", accidental |-> "sharp",
     scale |-> <<<<"A","#">>, <<"B","#">>, <<"C","#">>, <<"D","#">>, <<"E","#">>, <<"F","#">>, <<"G","#">>>>],
    [id |-> <<"D">>, label |-> "D minor", accidental |-> "flat",
     scale |-> <<<<"D">>, <<"E">>, <<"F">>, <<"G">>, <<"A">>, <<"B","b">>, <<"C">>>>],
    [id |-> <<"G">>, label |-> "G minor", accidental |-> "flat",
     scale |-> <<<<"G">>, <<"A">>, <<"B","b">>, <<"C">>, <<"D">>, <<"E","b">>, <<"F">>>>],
    [id |-> <<"C">>, label |-> "C minor", accidental |-> "flat",
     scale |-> <<<<"C">>, <<"D">>, <<"E","b">>, <<"F">>, <<"G">>, <<"A","b">>, <<"B","b">>>>],
    [id |-> <<"F">>, label |-> "F minor", accidental |-> "flat",
     scale |-> <<<<"F">>, <<"G">>, <<"A","b">>, <<"B","b">>, <<"C">>, <<"D","b">>, <<"E","b">>>>],
    [id |-> <<"B","b">>, label |-> "Bb minor", accidental |-> "flat",
     scale |-> <<<<"B","b">>, <<"C">>, <<"D","b">>, <<"E","b">>, <<"F">>, <<"G","b">>, <<"A","b">>>>],
    [id |-> <<"E","b">>, label |-> "Eb minor", accidental |-> "flat",
     scale |-> <<<<"E","b">>, <<"F">>, <<"G","b">>, <<"A","b">>, <<"B","b">>, <<"C","b">>, <<"D","b">>>>],
    [id |-> <<"A","b">>, label |-> "Ab minor", accidental |-> "flat",
     scale |-> <<<<"A","b">>, <<"B","b">>, <<"C","b">>, <<"D","b">>, <<"E","b">>, <<"F","b">>, <<"G","b">>>>]
  >>

\* chord-utils.js:65
ORDERED_MAJOR_ROOTS ==
  <<<<"C">>, <<"C","#">>, <<"D">>, <<"E","b">>, <<"E">>, <<"F">>, <<"F","#">>, <<"G">>, <<"A","b">>, <<"A">>, <<"B","b">>, <<"B">>, <<"C","b">>, <<"D","b">>, <<"G","b">>>>

\* chord-utils.js:66
ORDERED_MINOR_ROOTS ==
  <<<<"A">>, <<"A","#">>, <<"B">>, <<"C">>, <<"C","#">>, <<"D">>, <<"E","b">>, <<"E">>, <<"F">>, <<"F","#">>, <<"G">>, <<"G","#">>>>

(***************************************************************************)
(* chord-utils.js: the catalogue.                                          *)
(***************************************************************************)
\* a JavaScript Map from chroma to note name is a function on the chromas set
MapGet(map, key) ==
  IF IsNum(key) /\ key[2] \in DOMAIN map THEN map[key[2]] ELSE JsUndefined

\* if (chroma !== null) map.set(chroma, note); every scale note of the tables
\* parses, so the key is a number
MapSet(map, chroma, note) ==
  IF chroma # JsNull /\ IsNum(chroma) THEN (chroma[2] :> note) @@ map ELSE map

\* scale.forEach from index i on, the later note winning
RECURSIVE buildDiatonicMapFrom(_, _, _)
buildDiatonicMapFrom(scale, i, map) ==
  IF i > Len(scale) THEN map
  ELSE buildDiatonicMapFrom(scale, i + 1, MapSet(map, NoteGet(scale[i]).chroma, scale[i]))

\* mutant of buildDiatonicMap: the first scale note is skipped
buildDiatonicMapFromSecond(scale) == buildDiatonicMapFrom(scale, 2, <<>>)

buildDiatonicMap(scale) == buildDiatonicMapFrom(scale, 1, <<>>)

\* mutant of normalizeKeyDefinitions: every table is tagged as major
normalizeAsMajor(keys, mode) ==
  [i \in 1..Len(keys) |->
     [id |-> keys[i].id, label |-> keys[i].label, scale |-> keys[i].scale,
      accidental |-> keys[i].accidental, mode |-> "major",
      diatonicMap |-> buildDiatonicMap(keys[i].scale)]]

normalizeKeyDefinitions(keys, mode) ==
  [i \in 1..Len(keys) |->
     [id |-> keys[i].id, label |-> keys[i].label, scale |-> keys[i].scale,
      accidental |-> keys[i].accidental, mode |-> mode,
      diatonicMap |-> buildDiatonicMap(keys[i].scale)]]

\* the value of the KEY_DEFINITIONS constant after module evaluation
InitialKeyDefinitions ==
  normalizeKeyDefinitions(MAJOR_KEYS, "major") \o normalizeKeyDefinitions(MINOR_KEYS, "minor")

RootIsMajorKey(root) == \E i \in 1..Len(MAJOR_KEYS) : MAJOR_KEYS[i].id = root
RootIsMinorKey(root) == \E i \in 1..Len(MINOR_KEYS) : MINOR_KEYS[i].id = root
MAJOR_ROOTS == SelectSeq(ORDERED_MAJOR_ROOTS, RootIsMajorKey)
MINOR_ROOTS == SelectSeq(ORDERED_MINOR_ROOTS, RootIsMinorKey)

\* chord-utils.js:70  value.replace(/[(),\s]/g, "")
NotStripped(c) == c \notin {"(", ")", ",", " "}
sanitizeChordInput(value) == SelectSeq(value, NotStripped)

Least(indices) == CHOOSE i \in indices : \A j \in indices : i <= j

\* Array.prototype.find over the catalogue, then ?? KEY_DEFINITIONS[0]
\* mutant of KeyMatches: the mode is not compared
KeyMatchesAnyMode(root, mode) ==
  {i \in 1..Len(KEY_DEFINITIONS) : KEY_DEFINITIONS[i].id = root}

KeyMatches(root, mode) ==
  {i \in 1..Len(KEY_DEFINITIONS) :
     KEY_DEFINITIONS[i].id = root /\ KEY_DEFINITIONS[i].mode = mode}
FoundOrFirst(hit) ==
  IF hit # {} THEN KEY_DEFINITIONS[Least(hit)] ELSE KEY_DEFINITIONS[1]
getKeyDefinition(root, mode) == FoundOrFirst(KeyMatches(root, mode))

(***************************************************************************)
(* chord-utils.js: the speller.                                            *)
(***************************************************************************)
\* mutants of selectAccidentalName: the table read one entry too far, and the
\* preference read the wrong way round
selectAccidentalNameShifted(chroma, preference) ==
  IF preference = "flat" THEN ArrayAt(FLAT_NAMES, Num(chroma[2] + 1))
  ELSE ArrayAt(SHARP_NAMES, Num(chroma[2] + 1))
selectAccidentalNameInverted(chroma, preference) ==
  IF preference = "flat" THEN ArrayAt(SHARP_NAMES, chroma) ELSE ArrayAt(FLAT_NAMES, chroma)

selectAccidentalName(chroma, preference) ==
  IF preference = "flat" THEN ArrayAt(FLAT_NAMES, chroma) ELSE ArrayAt(SHARP_NAMES, chroma)

\* mutant of SpellChroma: the name is taken from the next chroma's entry
SpellChromaAbove(note, chroma, keyDefinition) ==
  IF ~IsNum(chroma) THEN note
  ELSE selectAccidentalName(Num((chroma[2] + 1) % 12), keyDefinition.accidental)

\* mutant of DiatonicOrAccidental: the scale spelling is not consulted
AccidentalOnly(diatonic, chroma, keyDefinition) ==
  selectAccidentalName(chroma, keyDefinition.accidental)

DiatonicOrAccidental(diatonic, chroma, keyDefinition) ==
  IF Truthy(diatonic) THEN diatonic
  ELSE selectAccidentalName(chroma, keyDefinition.accidental)

SpellChroma(note, chroma, keyDefinition) ==
  IF chroma = JsNull \/ chroma = JsUndefined THEN note
  ELSE DiatonicOrAccidental(MapGet(keyDefinition.diatonicMap, chroma), chroma, keyDefinition)

spellNoteInKey(note, keyDefinition) ==
  SpellChroma(note, NoteGet(note).chroma, keyDefinition)

spellNotesInKey(notes, keyDefinition) ==
  [i \in 1..Len(notes) |-> spellNoteInKey(notes[i], keyDefinition)]

\* mutant of SpellParsed: the octave is not written back
SpellParsedWithoutOctave(note, parsed, keyDefinition) ==
  IF parsed.chroma = JsNull \/ parsed.oct = JsNull THEN note
  ELSE TemplateStr(spellNoteInKey(parsed.name, keyDefinition))

SpellParsed(note, parsed, keyDefinition) ==
  IF parsed.chroma = JsNull \/ parsed.oct = JsNull THEN note
  ELSE TemplateStr(spellNoteInKey(parsed.name, keyDefinition)) \o TemplateStr(parsed.oct)

spellNotesWithOctaveInKey(notes, keyDefinition) ==
  [i \in 1..Len(notes) |-> SpellParsed(notes[i], NoteGet(notes[i]), keyDefinition)]

(***************************************************************************)
(* tonal's pitch arithmetic used by chord-function.js, on pitch classes    *)
(* (names without octave, the only ones the analyzer passes): a pitch      *)
(* class is a number of fifths from C, an interval adds fifths.            *)
(***************************************************************************)
FIFTHS == <<0, 2, 4, 0 - 1, 1, 3, 5>>
FIFTHS_TO_STEPS == <<3, 0, 4, 1, 5, 2, 6>>
StepLetters == <<"C", "D", "E", "F", "G", "A", "B">>

IntervalFifths(interval) ==
  CASE interval = "1P" -> 0
    [] interval = "2M" -> 2
    [] interval = "3m" -> 0 - 3
    [] interval = "4P" -> 0 - 1
    [] interval = "5P" -> 1
    [] interval = "6m" -> 0 - 4
    [] interval = "7m" -> 0 - 2
    [] interval = "3M" -> 4
    [] interval = "5d" -> 0 - 6
    [] interval = "7M" -> 5
    [] interval = "7d" -> 0 - 9

Floor7(f) == IF f >= 0 THEN f \div 7 ELSE 0 - ((6 - f) \div 7)

\* the name of the pitch class f fifths from C, alt = floor((f + 1) / 7)
PitchClassOf(f, alt) ==
  <<StepLetters[FIFTHS_TO_STEPS[(f + 1) - 7 * alt + 1] + 1]>> \o
  [i \in 1..(IF alt < 0 THEN 0 - alt ELSE alt) |-> IF alt < 0 THEN "b" ELSE "#"]
PitchClassName(f) == PitchClassOf(f, Floor7(f + 1))

\* Note.transpose(noteName, intervalName): "" when the name is no note
TransposeNote(note, interval) ==
  IF note.empty THEN <<>>
  ELSE PitchClassName(FIFTHS[StepOf(note.letter) + 1] + 7 * note.alt[2]
                      + IntervalFifths(interval))
NoteTranspose(noteName, interval) == TransposeNote(NoteGet(noteName), interval)

\* Note.enharmonic(noteName): the other table's name of the chroma, sharps for
\* a flat name and flats otherwise; "" when the name is no note
EnharmonicOf(src) ==
  IF src.empty THEN <<>>
  ELSE IF src.alt[2] < 0 THEN SHARP_NAMES[src.chroma[2] + 1]
  ELSE FLAT_NAMES[src.chroma[2] + 1]
NoteEnharmonic(noteName) == EnharmonicOf(NoteGet(noteName))

(***************************************************************************)
(* tonal's Chord.get(symbol).type: the name of the chord type whose alias  *)
(* is the text after the root ("" when there is none).  The dictionary is  *)
(* restricted to the chord types of the symbols explored here.             *)
(***************************************************************************)
ChordTypes ==
  << [name |-> "major",              aliases |-> {<<>>, <<"M">>, <<"m","a","j">>}],
     [name |-> "minor",              aliases |-> {<<"m">>, <<"m","i","n">>, <<"-">>}],
     [name |-> "diminished",         aliases |-> {<<"d","i","m">>, <<"o">>}],
     [name |-> "dominant seventh",   aliases |-> {<<"7">>, <<"d","o","m">>}],
     [name |-> "major seventh",      aliases |-> {<<"m","a","j","7">>, <<"m","a","7">>,
                                                  <<"M","7">>, <<"M","a","j","7">>}],
     [name |-> "minor seventh",      aliases |-> {<<"m","7">>, <<"m","i","n","7">>,
                                                  <<"m","i","7">>, <<"-","7">>}],
     [name |-> "diminished seventh", aliases |-> {<<"d","i","m","7">>, <<"o","7">>}],
     [name |-> "half-diminished",    aliases |-> {<<"m","7","b","5">>, <<"h","7">>,
                                                  <<"o-slash">>}] >>

TypesWithAlias(typeName) == {i \in 1..Len(ChordTypes) : typeName \in ChordTypes[i].aliases}
ChordTypeName(hit) == IF hit = {} THEN "" ELSE ChordTypes[Least(hit)].name
ChordTypeOfTokens(t) ==
  IF t.letter = <<>> THEN "" ELSE ChordTypeName(TypesWithAlias(t.oct \o t.rest))
ChordGetType(chordSymbol) == ChordTypeOfTokens(tokenizeNote(chordSymbol))

\* the intervals of a chord type and its first alias, which tonal appends to
\* the tonic to form the chord's symbol
ChordTypeData ==
  [major |-> [intervals |-> <<"1P", "3M", "5P">>, alias |-> <<"M">>],
   minor |-> [intervals |-> <<"1P", "3m", "5P">>, alias |-> <<"m">>],
   diminished |-> [intervals |-> <<"1P", "3m", "5d">>, alias |-> <<"d","i","m">>],
   dominant_seventh |-> [intervals |-> <<"1P", "3M", "5P", "7m">>, alias |-> <<"7">>],
   major_seventh |-> [intervals |-> <<"1P", "3M", "5P", "7M">>,
                      alias |-> <<"m","a","j","7">>],
   minor_seventh |-> [intervals |-> <<"1P", "3m", "5P", "7m">>, alias |-> <<"m","7">>],
   diminished_seventh |-> [intervals |-> <<"1P", "3m", "5d", "7d">>,
                           alias |-> <<"d","i","m","7">>],
   half_diminished |-> [intervals |-> <<"1P", "3m", "5d", "7m">>,
                        alias |-> <<"m","7","b","5">>]]
ChordTypeKey(typeName) ==
  CASE typeName = "major" -> "major"
    [] typeName = "minor" -> "minor"
    [] typeName = "diminished" -> "diminished"
    [] typeName = "dominant seventh" -> "dominant_seventh"
    [] typeName = "major seventh" -> "major_seventh"
    [] typeName = "minor seventh" -> "minor_seventh"
    [] typeName = "diminished seventh" -> "diminished_seventh"
    [] typeName = "half-diminished" -> "half_diminished"

\* Chord.get(symbol): the notes are the tonic transposed by the type's
\* intervals, the symbol is the tonic followed by the type's first alias; a
\* symbol without tonic or of unknown type has no notes
NoChord == [empty |-> TRUE, symbol |-> <<>>, notes |-> <<>>]
ChordOfType(tonic, data) ==
  [empty  |-> FALSE,
   symbol |-> tonic \o data.alias,
   notes  |-> [i \in 1..Len(data.intervals) |-> NoteTranspose(tonic, data.intervals[i])]]
ChordOfTonic(tonic, typeName) ==
  IF typeName = "" THEN NoChord ELSE ChordOfType(tonic, ChordTypeData[ChordTypeKey(typeName)])
ChordOfTokens(t) ==
  IF t.letter = <<>> THEN NoChord
  ELSE ChordOfTonic(t.letter \o t.acc, ChordTypeName(TypesWithAlias(t.oct \o t.rest)))
ChordGet(src) == IF src = <<>> THEN NoChord ELSE ChordOfTokens(tokenizeNote(src))

(***************************************************************************)
(* chord-function.js (src/unnamed/part_001, lines 196-574).                *)
(* Results carry no description field here: it is display text that no     *)
(* code reads.  The degree sign is the one-character token "deg".          *)
(***************************************************************************)
romanNumerals ==
  << <<"I">>, <<"I","I">>, <<"I","I","I">>, <<"I","V">>, <<"V">>, <<"V","I">>,
     <<"V","I","I">> >>

\* the pattern of the root: a letter a-g of either case, then optionally a
\* sharp or a b of either case
RootMatchLen(cleaned) ==
  IF Len(cleaned) > 0 /\ cleaned[1] \in NoteLetterChars
    THEN (IF Len(cleaned) > 1 /\ cleaned[2] \in {"#", "b", "B"} THEN 2 ELSE 1)
    ELSE 0

RootOfMatch(root) ==
  IF root = <<>> THEN JsNull
  ELSE IF NoteGet(root).empty THEN JsNull
  ELSE toUpperCase(root)
\* mutant of RootOfCleaned: the pattern is not anchored at the first character
RootOfCleanedUnanchored(cleaned) ==
  IF RootMatchLen(cleaned) = 0 /\ cleaned # <<>>
    THEN RootOfMatch(SubSeq(Tail(cleaned), 1, RootMatchLen(Tail(cleaned))))
    ELSE RootOfMatch(SubSeq(cleaned, 1, RootMatchLen(cleaned)))

RootOfCleaned(cleaned) == RootOfMatch(SubSeq(cleaned, 1, RootMatchLen(cleaned)))
extractChordRoot(chordSymbol) ==
  IF chordSymbol = <<>> THEN JsNull
  ELSE RootOfCleaned(sanitizeChordInput(chordSymbol))

\* scale.findIndex(scaleNote => Note.get(scaleNote).pc === pc), as the set of
\* matching positions
ScaleMatches(pc, scale) == {i \in 1..Len(scale) : NoteGet(scale[i]).pc = pc}
DegreeOrNull(hit) == IF hit = {} THEN JsNull ELSE Num(Least(hit))
DegreeOfNote(noteInfo, scale) ==
  IF noteInfo.empty THEN JsNull ELSE DegreeOrNull(ScaleMatches(noteInfo.pc, scale))
getScaleDegree(note, keyDefinition) == DegreeOfNote(NoteGet(note), keyDefinition.scale)

\* mutant of generateRomanNumeral: the label is never lower-cased
generateRomanNumeralUpper(scaleDegree, mode) ==
  IF scaleDegree < 1 \/ scaleDegree > 7 THEN <<"N","/","A">>
  ELSE IF (mode = "major" /\ scaleDegree = 7) \/ (mode = "minor" /\ scaleDegree = 2)
    THEN romanNumerals[scaleDegree] \o <<"deg">>
  ELSE romanNumerals[scaleDegree]

generateRomanNumeral(scaleDegree, mode) ==
  IF scaleDegree < 1 \/ scaleDegree > 7 THEN <<"N","/","A">>
  ELSE IF mode = "major"
    THEN (IF scaleDegree \in {2, 3, 6} THEN toLowerCase(romanNumerals[scaleDegree])
          ELSE IF scaleDegree = 7 THEN toLowerCase(romanNumerals[scaleDegree]) \o <<"deg">>
          ELSE romanNumerals[scaleDegree])
  ELSE IF mode = "minor"
    THEN (IF scaleDegree \in {1, 4, 5} THEN toLowerCase(romanNumerals[scaleDegree])
          ELSE IF scaleDegree = 2 THEN toLowerCase(romanNumerals[scaleDegree]) \o <<"deg">>
          ELSE romanNumerals[scaleDegree])
  ELSE romanNumerals[scaleDegree]

\* mutant of getHarmonicFunction: the minor mode maps degree 7 to subdominant
getHarmonicFunctionMinorSeventh(scaleDegree, mode) ==
  IF mode = "minor" /\ scaleDegree = 7 THEN [function |-> "subdominant", color |-> "blue"]
  ELSE IF scaleDegree \in {1, 3, 6} THEN [function |-> "tonic", color |-> "green"]
  ELSE IF scaleDegree \in {4, 2} THEN [function |-> "subdominant", color |-> "blue"]
  ELSE [function |-> "dominant", color |-> "red"]

getHarmonicFunction(scaleDegree, mode) ==
  IF mode \in {"major", "minor"}
    THEN (IF scaleDegree \in {1, 3, 6} THEN [function |-> "tonic", color |-> "green"]
          ELSE IF scaleDegree \in {4, 2} THEN [function |-> "subdominant", color |-> "blue"]
          ELSE IF scaleDegree \in {5, 7} THEN [function |-> "dominant", color |-> "red"]
          ELSE [function |-> "tonic", color |-> "green"])
    ELSE [function |-> "tonic", color |-> "green"]

\* the case-insensitive pattern maj7 | m7 | dim7 | slashed o on the symbol; the
\* slashed o of either case is the one-character token "o-slash" or "O-slash"
MatchesLower(lower) ==
  \/ includes(lower, <<"m","a","j","7">>)
  \/ includes(lower, <<"m","7">>)
  \/ includes(lower, <<"d","i","m","7">>)
MatchesSeventhPattern(chordSymbol) ==
  \/ MatchesLower(toLowerCase(chordSymbol))
  \/ includes(chordSymbol, <<"o-slash">>)
  \/ includes(chordSymbol, <<"O-slash">>)

isDominant7th(chordSymbol) ==
  \/ ChordGetType(chordSymbol) = "dominant"
  \/ (includes(chordSymbol, <<"7">>) /\ ~MatchesSeventhPattern(chordSymbol))

minorIntervals == <<"1P", "2M", "3m", "4P", "5P", "6m", "7m">>
buildParallelMinorScale(tonic) ==
  [i \in 1..Len(minorIntervals) |-> NoteEnharmonic(NoteTranspose(tonic, minorIntervals[i]))]

ScaleHasChroma(scale, chroma) ==
  \E i \in 1..Len(scale) : NoteGet(scale[i]).chroma = chroma
\* mutant of InMinorNotMajor: membership of the major scale is not tested
InMinorOnly(noteChroma, majorScale, minorScale) == ScaleHasChroma(minorScale, noteChroma)

InMinorNotMajor(noteChroma, majorScale, minorScale) ==
  ~ScaleHasChroma(majorScale, noteChroma) /\ ScaleHasChroma(minorScale, noteChroma)
isNoteDifferentInParallelMinor(note, majorScale, minorScale) ==
  InMinorNotMajor(NoteGet(note).chroma, majorScale, minorScale)

borrowedMap ==
  (3 :> [roman |-> <<"b","I","I","I">>, color |-> "green"]) @@
  (6 :> [roman |-> <<"b","V","I">>, color |-> "blue"]) @@
  (7 :> [roman |-> <<"b","V","I","I">>, color |-> "red"]) @@
  (4 :> [roman |-> <<"i","v">>, color |-> "blue"])
generateBorrowedRomanNumeral(scaleDegree) ==
  IF scaleDegree \notin DOMAIN borrowedMap THEN JsNull
  ELSE Obj([roman |-> borrowedMap[scaleDegree].roman,
            color |-> borrowedMap[scaleDegree].color,
            scaleDegree |-> Num(scaleDegree), borrowedFrom |-> "minor"])

\* mutant of BorrowedAt: the comparison with the major scale is skipped
BorrowedAtAnyDegree(hit, chordRoot, majorScale, parallelMinorScale) ==
  IF hit = {} THEN JsNull
  ELSE generateBorrowedRomanNumeral(Least(hit))

BorrowedAt(hit, chordRoot, majorScale, parallelMinorScale) ==
  IF hit = {} THEN JsNull
  ELSE IF ~isNoteDifferentInParallelMinor(chordRoot, majorScale, parallelMinorScale)
    THEN JsNull
  ELSE generateBorrowedRomanNumeral(Least(hit))
BorrowedIn(chordRoot, rootInfo, majorScale, parallelMinorScale) ==
  IF rootInfo.empty THEN JsNull
  ELSE BorrowedAt(ScaleMatches(rootInfo.pc, parallelMinorScale), chordRoot, majorScale,
                  parallelMinorScale)
\* keyDefinition.tonic is never set, so the tonic is keyDefinition.id
detectBorrowedChord(chordRoot, keyDefinition) ==
  IF keyDefinition.mode # "major" THEN JsNull
  ELSE IF keyDefinition.id = <<>> THEN JsNull
  ELSE BorrowedIn(chordRoot, NoteGet(chordRoot), keyDefinition.scale,
                  buildParallelMinorScale(keyDefinition.id))

SecondaryOn(targetScaleDegree, chordRoot, keyDefinition) ==
  IF targetScaleDegree = JsNull \/ targetScaleDegree = Num(1) THEN JsNull
  ELSE Obj([function |-> "secondary-dominant",
            roman |-> <<"V", "/">> \o
                      generateRomanNumeral(targetScaleDegree[2], keyDefinition.mode),
            color |-> "red",
            scaleDegree |-> getScaleDegree(chordRoot, keyDefinition),
            chordRoot |-> chordRoot,
            targetsDegree |-> targetScaleDegree])
SecondaryTo(targetRoot, chordRoot, keyDefinition) ==
  IF targetRoot = <<>> THEN JsNull
  ELSE SecondaryOn(getScaleDegree(targetRoot, keyDefinition), chordRoot, keyDefinition)
detectSecondaryDominant(chordSymbol, chordRoot, keyDefinition) ==
  IF ~isDominant7th(chordSymbol) THEN JsNull
  ELSE SecondaryTo(NoteTranspose(chordRoot, "4P"), chordRoot, keyDefinition)

DiatonicResult(harmonic, scaleDegree, chordRoot, mode) ==
  Obj([function |-> harmonic.function,
       roman |-> generateRomanNumeral(scaleDegree[2], mode),
       color |-> harmonic.color,
       scaleDegree |-> scaleDegree,
       chordRoot |-> chordRoot])
BorrowedResult(borrowedChord, chordRoot) ==
  IF borrowedChord = JsNull THEN JsNull
  ELSE Obj([function |-> "borrowed",
            roman |-> borrowedChord[2].roman,
            color |-> borrowedChord[2].color,
            scaleDegree |-> borrowedChord[2].scaleDegree,
            chordRoot |-> chordRoot,
            borrowedFrom |-> borrowedChord[2].borrowedFrom])
AnalyzeAfterSecondary(secondaryDominant, chordRoot, scaleDegree, keyDefinition) ==
  IF secondaryDominant # JsNull THEN secondaryDominant
  ELSE IF scaleDegree # JsNull
    THEN DiatonicResult(getHarmonicFunction(scaleDegree[2], keyDefinition.mode),
                        scaleDegree, chordRoot, keyDefinition.mode)
  ELSE BorrowedResult(detectBorrowedChord(chordRoot, keyDefinition), chordRoot)
AnalyzeDegree(chordSymbol, chordRoot, scaleDegree, keyDefinition) ==
  AnalyzeAfterSecondary(
    IF isDominant7th(chordSymbol) /\ scaleDegree # Num(5)
      THEN detectSecondaryDominant(chordSymbol, chordRoot, keyDefinition)
      ELSE JsNull,
    chordRoot, scaleDegree, keyDefinition)
AnalyzeRoot(chordSymbol, chordRoot, keyDefinition) ==
  IF chordRoot = JsNull THEN JsNull
  ELSE AnalyzeDegree(chordSymbol, chordRoot, getScaleDegree(chordRoot, keyDefinition),
                     keyDefinition)
analyzeChordFunction(chordSymbol, keyDefinition) ==
  IF chordSymbol = <<>> THEN JsNull
  ELSE AnalyzeRoot(chordSymbol, extractChordRoot(chordSymbol), keyDefinition)

(***************************************************************************)
(* main.js: the chord lookup.                                              *)
(***************************************************************************)
AppendOctave4(notes) == [i \in 1..Len(notes) |-> notes[i] \o <<"4">>]
BuildValid(symbol, spelledNotes, cleaned, keyDefinition) ==
  [status |-> "valid",
   symbol |-> symbol,
   notes |-> spelledNotes,
   notesWithOctave |-> spellNotesWithOctaveInKey(AppendOctave4(spelledNotes), keyDefinition),
   function |-> analyzeChordFunction(cleaned, keyDefinition)]
\* mutant of BuildFromChord: the resolver's pitches are returned as they are
BuildFromChordUnspelled(chord, cleaned, keyDefinition) ==
  IF chord.notes = <<>> THEN [status |-> "invalid"]
  ELSE BuildValid(chord.symbol, chord.notes, cleaned, keyDefinition)

BuildFromChord(chord, cleaned, keyDefinition) ==
  IF chord.notes = <<>> THEN [status |-> "invalid"]
  ELSE BuildValid(chord.symbol, spellNotesInKey(chord.notes, keyDefinition), cleaned,
                  keyDefinition)
buildChordResult(cleaned, keyDefinition) ==
  IF cleaned = <<>> THEN [status |-> "empty"]
  ELSE BuildFromChord(ChordGet(cleaned), cleaned, keyDefinition)

(***************************************************************************)
(* The inputs explored.                                                    *)
(***************************************************************************)
Repeat(c, n) == [i \in 1..n |-> c]
AccStrings == {Repeat("#", n) : n \in 0..MaxAcc} \cup {Repeat("b", n) : n \in 0..MaxAcc}
\* every parseable pitch-class name: a letter with up to MaxAcc sharps or flats
PitchNames == {<<StepLetters[s]>> \o acc : s \in 1..7, acc \in AccStrings}
OctaveStrs == {<<>>, <<"3">>, <<"4">>}
\* strings that are no note: empty, no note letter, trailing text
JunkTokens == {<<>>, <<"H">>, <<"B", "B">>}
NoteTokens == {p \o o : p \in PitchNames, o \in OctaveStrs} \cup JunkTokens
\* the entries of the longer lists
ListTokens ==
  { <<"F">>, <<"B","b">>, <<"C","#","4">>, <<"B","4">>, <<"C","b","3">>, <<"E","#">>,
    <<"H">>, <<>> }
NoteLists == UNION {[1..n -> ListTokens] : n \in 0..MaxNotes}
SpellInputs == {<<t>> : t \in NoteTokens} \cup NoteLists

ModeInputs == {"major", "minor", "dorian"}
RootInputs == PitchNames \cup JunkTokens \cup {<<"c">>}

ChordRoots ==
  {<<StepLetters[s]>> \o acc : s \in 1..7, acc \in {<<>>, <<"#">>, <<"b">>}}
    \cup {<<"b","b">>, <<"H">>, <<>>}
ChordSuffixes ==
  { <<>>, <<"m">>, <<"d","i","m">>, <<"7">>, <<"m","a","j","7">>, <<"M","7">>,
    <<"m","a","7">>, <<"m","7">>, <<"m","i","n","7">>, <<"-","7">>,
    <<"d","i","m","7">>, <<"o","7">>, <<"m","7","b","5">>, <<"o-slash">> }
(***************************************************************************)
(* chord-utils.js:158-178  the notes input: tokens, octave strip, validity *)
(***************************************************************************)
\* the separators of split(/[,\s]+/) that the input box can hold
NoteSeparators == {",", " "}

\* length of the run of non-separator characters of s starting at position p
RECURSIVE TokenLen(_, _)
TokenLen(s, p) ==
  IF p <= Len(s) /\ s[p] \notin NoteSeparators THEN 1 + TokenLen(s, p + 1) ELSE 0

\* split(/[,\s]+/).map(trim).filter(Boolean): the maximal separator-free runs
RECURSIVE SplitFrom(_, _)
RECURSIVE SplitToken(_, _, _)
SplitToken(s, p, n) == <<SubSeq(s, p, p + n - 1)>> \o SplitFrom(s, p + n)
SplitFrom(s, p) ==
  IF p > Len(s) THEN <<>>
  ELSE IF s[p] \in NoteSeparators THEN SplitFrom(s, p + 1)
  ELSE SplitToken(s, p, TokenLen(s, p))

\* number of digits at the end of note, counted from position p backwards
RECURSIVE TrailingDigits(_, _)
TrailingDigits(note, p) ==
  IF p >= 1 /\ note[p] \in DigitChars THEN 1 + TrailingDigits(note, p - 1) ELSE 0

\* chord-utils.js:169  note.replace(/\d+$/, "").trim()
stripOctave(note) ==
  IF note = <<>> THEN <<>> ELSE SubSeq(note, 1, Len(note) - TrailingDigits(note, Len(note)))

\* chord-utils.js:159
parseNotesInput(input) ==
  IF input = <<>> THEN <<>>
  ELSE [i \in 1..Len(SplitFrom(input, 1)) |-> stripOctave(SplitFrom(input, 1)[i])]

\* chord-utils.js:175  /^[A-Ga-g][#b]?$/
isValidNote(note) ==
  /\ Len(note) \in {1, 2}
  /\ toUpperCase(<<note[1]>>)[1] \in NoteLetterChars
  /\ Len(note) = 2 => note[2] \in {"#", "b"}

ValidNotesOf(input) == SelectSeq(parseNotesInput(input), isValidNote)

\* main.js:93
detectInputType(input) == IF Len(ValidNotesOf(input)) >= 3 THEN "notes" ELSE "chord"

(***************************************************************************)
(* main.js:19-54, 273-279  storage and the state object                    *)
(***************************************************************************)
STORAGE_KEYS ==
  [HISTORY |-> "harmonia.history", PROGRESSION |-> "harmonia.progression",
   PROGRESSION_HISTORY |-> "harmonia.progressionHistory", KEY_ROOT |-> "harmonia.keyRoot",
   KEY_MODE |-> "harmonia.keyMode", INPUT_MODE |-> "harmonia.inputMode"]

StorageNames == {STORAGE_KEYS[k] : k \in DOMAIN STORAGE_KEYS}

\* getItem of a key that was never set gives null
EmptyStorage == [k \in StorageNames |-> JsNull]

\* JSON text is kept as the value it encodes, tagged; JSON.parse removes the tag
JsonStringify(value) == <<"json", value>>
JsonParse(raw) == raw[2]

\* main.js:29  load: the fallback when nothing is stored, else the parsed value
StorageLoad(backend, key, fallback) ==
  IF backend[key] = JsNull THEN fallback ELSE JsonParse(backend[key])

\* main.js:41
StorageSave(backend, key, value) == [backend EXCEPT ![key] = JsonStringify(value)]

\* main.js:46  arrays are objects: shared holds the positions of progressionHistory
\* whose entry is the very array that progression refers to; JSON.parse gives new
\* arrays, so none is shared after loading
createState(backend) ==
  [currentChord |-> JsNull,
   history |-> StorageLoad(backend, STORAGE_KEYS.HISTORY, <<>>),
   progression |-> StorageLoad(backend, STORAGE_KEYS.PROGRESSION, <<>>),
   progressionHistory |-> StorageLoad(backend, STORAGE_KEYS.PROGRESSION_HISTORY, <<>>),
   keyRoot |-> StorageLoad(backend, STORAGE_KEYS.KEY_ROOT, <<"C">>),
   keyMode |-> StorageLoad(backend, STORAGE_KEYS.KEY_MODE, "major"),
   inputMode |-> StorageLoad(backend, STORAGE_KEYS.INPUT_MODE, "chord"),
   shared |-> {}]

\* main.js:273  five of the six keys are written
persistState(backend, st) ==
  StorageSave(StorageSave(StorageSave(StorageSave(StorageSave(backend,
    STORAGE_KEYS.HISTORY, st.history),
    STORAGE_KEYS.PROGRESSION, st.progression),
    STORAGE_KEYS.PROGRESSION_HISTORY, st.progressionHistory),
    STORAGE_KEYS.KEY_ROOT, st.keyRoot),
    STORAGE_KEYS.KEY_MODE, st.keyMode)

(***************************************************************************)
(* main.js:103-118, 308-477  the page: rendering and the list operations   *)
(***************************************************************************)
\* main.js:455 and main.js:474  slice(0, 20)
HistoryLimit == 20
ProgressionHistoryLimit == 20

\* mutant of SliceTo: the cut one entry late
SliceToOneMore(list, n) == SubSeq(list, 1, IF Len(list) < n + 1 THEN Len(list) ELSE n + 1)
\* Array.prototype.slice(0, n)
SliceTo(list, n) == SubSeq(list, 1, IF Len(list) < n THEN Len(list) ELSE n)
\* Array.prototype.unshift(item)
Unshift(list, item) == <<item>> \o list
\* Array.prototype.splice(index, 1) with a 0-based index: what is left
SpliceOut(list, index) == SubSeq(list, 1, index) \o SubSeq(list, index + 2, Len(list))
\* Array.prototype.splice(index, 0, item) with a 0-based index
SpliceIn(list, index, item) ==
  SubSeq(list, 1, index) \o <<item>> \o SubSeq(list, index + 1, Len(list))
\* main.js:528-529 and 543-544  the two splices of a drag
MoveItem(list, oldIndex, newIndex) ==
  SpliceIn(SpliceOut(list, oldIndex), newIndex, list[oldIndex + 1])

RootsOfMode(mode) == IF mode = "minor" THEN MINOR_ROOTS ELSE MAJOR_ROOTS

\* mutant of RootAfterPopulate: the root is kept whatever the mode offers
RootKept(keyRoot, roots) == keyRoot
\* main.js:112-117  the root kept or reset to the first offered one
RootAfterPopulate(keyRoot, roots) ==
  IF keyRoot \in Range(roots) THEN keyRoot ELSE roots[1]

\* main.js:103  on the state and on the select element
populateRootSelectState(st, mode) ==
  [st EXCEPT !.keyRoot = RootAfterPopulate(st.keyRoot, RootsOfMode(mode))]
populateRootSelect(u, st, mode) ==
  [u EXCEPT !.rootOptions = RootsOfMode(mode),
            !.keyRoot = RootAfterPopulate(st.keyRoot, RootsOfMode(mode))]

\* main.js:315-351  one entry per shown candidate: its name and its analysis
TopChords(detectedChords, keyDefinition) ==
  [i \in 1..Len(SliceTo(detectedChords, 3)) |->
     [chord |-> detectedChords[i],
      function |-> analyzeChordFunction(detectedChords[i], keyDefinition)]]

\* main.js:308
renderDetectedChords(u, detectedChords, keyDefinition) ==
  IF Len(detectedChords) = 0
  THEN [u EXCEPT !.chordOutput = "none-detected", !.candidates = <<>>, !.detected = <<>>]
  ELSE [u EXCEPT !.chordOutput = "candidates", !.detected = detectedChords,
                 !.candidates = TopChords(detectedChords, keyDefinition)]

\* mutant of CurrentChordOf: only an empty input clears the current chord
CurrentChordUnlessEmpty(chordResult) ==
  IF chordResult.status = "empty" THEN JsNull
  ELSE IF chordResult.status = "invalid"
  THEN Obj([symbol |-> <<>>, notes |-> <<>>, notesWithOctave |-> <<>>, function |-> JsNull])
  ELSE Obj([symbol |-> chordResult.symbol, notes |-> chordResult.notes,
            notesWithOctave |-> chordResult.notesWithOctave,
            function |-> chordResult.function])
\* main.js:361  on the state: the current chord
CurrentChordOf(chordResult) ==
  IF chordResult.status \in {"empty", "invalid"} THEN JsNull
  ELSE Obj([symbol |-> chordResult.symbol, notes |-> chordResult.notes,
            notesWithOctave |-> chordResult.notesWithOctave,
            function |-> chordResult.function])

\* main.js:361  on the page: the output text replaces whatever was shown
renderChord(u, chordResult) ==
  [u EXCEPT !.chordOutput = chordResult.status, !.candidates = <<>>, !.detected = <<>>]

\* mutant of ModeAfterDetect: no automatic switch
ModeKept(st, input) == st.inputMode
\* main.js:429-432  the input mode after the automatic switch
ModeAfterDetect(st, input) ==
  IF detectInputType(input) # st.inputMode /\ Len(ValidNotesOf(input)) >= 3
  THEN detectInputType(input) ELSE st.inputMode

\* main.js:436-438  the notes branch
UpdateFromNotes(st, u, mode, detected, keyDefinition) ==
  [state |-> [st EXCEPT !.inputMode = mode,
                        !.currentChord = IF Len(detected) > 0
                                         THEN Obj([symbol |-> detected[1]]) ELSE JsNull],
   ui |-> renderDetectedChords(u, detected, keyDefinition)]

\* main.js:440-442  the chord branch
UpdateFromChord(st, u, mode, chordResult) ==
  [state |-> [st EXCEPT !.inputMode = mode, !.currentChord = CurrentChordOf(chordResult)],
   ui |-> renderChord(u, chordResult)]

UpdateInMode(st, u, mode, detected, keyDefinition) ==
  IF mode = "notes" /\ Len(ValidNotesOf(u.input)) >= 2
  THEN UpdateFromNotes(st, u, mode, detected, keyDefinition)
  ELSE UpdateFromChord(st, u, mode,
                       buildChordResult(sanitizeChordInput(u.input), keyDefinition))

\* main.js:421  detected is what Chord.detect returns for the valid notes
updateChord(u, st, detected) ==
  UpdateInMode(st, u, ModeAfterDetect(st, u.input), detected,
               getKeyDefinition(st.keyRoot, st.keyMode))

\* main.js:450
addHistoryItem(st) ==
  IF st.currentChord = JsNull THEN st
  ELSE [st EXCEPT !.history =
          SliceTo(Unshift(st.history, st.currentChord[2].symbol), HistoryLimit)]

\* push and splice change the array object itself: every saved entry that is
\* this object shows the new items
MutateProgression(st, items) ==
  [st EXCEPT !.progression = items,
             !.progressionHistory =
                [i \in 1..Len(st.progressionHistory) |->
                   IF i \in st.shared THEN items ELSE st.progressionHistory[i]]]

\* mutant of SpreadCopy: the array itself is stored
SameArray(array) == [items |-> array, same |-> TRUE]
\* main.js:473  [...state.progression]: the items in a new array object
SpreadCopy(array) == [items |-> array, same |-> FALSE]

\* the shared positions after unshift and slice(0, limit), after splice(p - 1, 1),
\* and after the two splices of a drag
SharedAfterUnshift(shared, same, limit) ==
  {i + 1 : i \in {j \in shared : j < limit}} \cup (IF same THEN {1} ELSE {})
SharedAfterRemove(shared, p) ==
  {i \in shared : i < p} \cup {i - 1 : i \in {j \in shared : j > p}}
SharedAfterMove(shared, n, oldIndex, newIndex) ==
  {j \in 1..n : MoveItem([i \in 1..n |-> i], oldIndex, newIndex)[j] \in shared}

\* main.js:460
addProgressionItem(st) ==
  IF st.currentChord = JsNull THEN st
  ELSE MutateProgression(st, Append(st.progression, st.currentChord[2].symbol))

\* main.js:451-456 and 461-465  what the two adds leave in storage: nothing new
\* after the early return, else the persisted state
StorageAfterHistoryAdd(backend, st) ==
  IF st.currentChord = JsNull THEN backend ELSE persistState(backend, addHistoryItem(st))
StorageAfterProgressionAdd(backend, st) ==
  IF st.currentChord = JsNull THEN backend
  ELSE persistState(backend, addProgressionItem(st))

\* main.js:469
saveProgression(st) ==
  IF Len(st.progression) = 0 THEN st
  ELSE [st EXCEPT !.progressionHistory =
          SliceTo(Unshift(st.progressionHistory, SpreadCopy(st.progression).items),
                  ProgressionHistoryLimit),
                  !.shared =
          SharedAfterUnshift(st.shared, SpreadCopy(st.progression).same,
                             ProgressionHistoryLimit)]

\* symbols with stripped characters and symbols that begin with no note letter
ChordJunk ==
  { <<" ">>, <<"(">>, <<" ","C">>, <<"(","C",")">>, <<",","A","m">>, <<"7">>, <<"#">>,
    <<"#","C">>, <<"H","7">>, <<"(","H",")">> }
ChordInputs == {r \o s : r \in ChordRoots, s \in ChordSuffixes} \cup ChordJunk

(***************************************************************************)
(* The state machine: the module is evaluated (the catalogue is built),    *)
(* then an exported function is applied to arguments.                      *)
(***************************************************************************)
\* index.html: the empty input box and root select before init() runs; the
\* floating window has no inline display and no 'open' class, no timer is pending
StaticPage ==
  [input |-> <<>>, keyRoot |-> <<>>, rootOptions |-> <<>>, chordOutput |-> "empty",
   candidates |-> <<>>, detected |-> <<>>,
   floatingWindow |-> [display |-> "", open |-> FALSE], hideTimers |-> 0]

\* main.js:510-520  init(): the state is created from storage, the root select is
\* filled, the (empty) input is looked up
LoadedPage(backend) ==
  updateChord(populateRootSelect(StaticPage, createState(backend), createState(backend).keyMode),
              populateRootSelectState(createState(backend), createState(backend).keyMode),
              <<>>)

InitModule ==
  /\ KEY_DEFINITIONS = InitialKeyDefinitions
  /\ noNoteChroma \in {JsUndefined, JsNaN}
  /\ op = "init"
  /\ result = JsUndefined
  /\ storage = EmptyStorage
  /\ state = LoadedPage(EmptyStorage).state
  /\ ui = LoadedPage(EmptyStorage).ui
  /\ edits = [edited |-> 0, set |-> 0]

InitSpell ==
  /\ InitModule
  /\ args \in [notes : SpellInputs, keyDefinition : Range(InitialKeyDefinitions)]

InitKey ==
  /\ InitModule
  /\ args \in [root : RootInputs, mode : ModeInputs]

InitAnalyze ==
  /\ InitModule
  /\ args \in [chordSymbol : ChordInputs, keyDefinition : Range(InitialKeyDefinitions)]

InitLookup ==
  /\ InitModule
  /\ args \in [input : ChordInputs, keyDefinition : Range(InitialKeyDefinitions)]

\* the page after init(), no exported function being called
InitUi ==
  /\ InitModule
  /\ args = <<>>

Init == InitSpell \/ InitKey \/ InitAnalyze \/ InitLookup \/ InitUi

\* every exported function, each on a few arguments
CatalogueNotes == {<<t>> : t \in JunkTokens \cup {<<"B","4">>}}
CatalogueChords == {<<"B","b">>, <<"G","7">>, <<"H">>}
InitCatalogue ==
  /\ InitModule
  /\ \/ args \in [notes : CatalogueNotes, keyDefinition : Range(InitialKeyDefinitions)]
     \/ args \in [root : RootInputs, mode : ModeInputs]
     \/ args \in [chordSymbol : CatalogueChords, keyDefinition : Range(InitialKeyDefinitions)]
     \/ args \in [input : CatalogueChords, keyDefinition : Range(InitialKeyDefinitions)]

SpellNotesInKey ==
  /\ op = "init"
  /\ "notes" \in DOMAIN args
  /\ op' = "spellNotesInKey"
  /\ result' = spellNotesInKey(args.notes, args.keyDefinition)
  /\ UNCHANGED <<KEY_DEFINITIONS, noNoteChroma, args, state, storage, ui, edits>>

SpellNotesWithOctaveInKey ==
  /\ op = "init"
  /\ "notes" \in DOMAIN args
  /\ op' = "spellNotesWithOctaveInKey"
  /\ result' = spellNotesWithOctaveInKey(args.notes, args.keyDefinition)
  /\ UNCHANGED <<KEY_DEFINITIONS, noNoteChroma, args, state, storage, ui, edits>>

GetKeyDefinition ==
  /\ op = "init"
  /\ "root" \in DOMAIN args
  /\ op' = "getKeyDefinition"
  /\ result' = getKeyDefinition(args.root, args.mode)
  /\ UNCHANGED <<KEY_DEFINITIONS, noNoteChroma, args, state, storage, ui, edits>>

AnalyzeChordFunction ==
  /\ op = "init"
  /\ "chordSymbol" \in DOMAIN args
  /\ op' = "analyzeChordFunction"
  /\ result' = analyzeChordFunction(args.chordSymbol, args.keyDefinition)
  /\ UNCHANGED <<KEY_DEFINITIONS, noNoteChroma, args, state, storage, ui, edits>>

\* main.js:440-441, the chord branch of updateChord: sanitize, then look up
LookupChord ==
  /\ op = "init"
  /\ "input" \in DOMAIN args
  /\ op' = "buildChordResult"
  /\ result' = buildChordResult(sanitizeChordInput(args.input), args.keyDefinition)
  /\ UNCHANGED <<KEY_DEFINITIONS, noNoteChroma, args, state, storage, ui, edits>>

(***************************************************************************)
(* main.js:510-631  the page's event handlers.  Adding to the history and  *)
(* the progression and saving it are free; typing, editing a list and      *)
(* loading the page again count as edits, clicks on a setting or a         *)
(* candidate as settings.                                                  *)
(***************************************************************************)
\* what the user types into the input box
UiInputs ==
  { <<>>, <<"C">>, <<"E","7">>, <<"H">>, <<"C"," ","E">>,
    <<"C",",","E","4"," ","G">> }

\* what Chord.detect (tonal) may return: an ordered list of chord symbols
DetectResults ==
  { <<>>, <<<<"C","M">>>>, <<<<"C","M">>, <<"E","m">>>>,
    <<<<"E","m">>, <<"C","M">>, <<"G","7">>>>,
    <<<<"C","M">>, <<"E","m">>, <<"G","7">>, <<"A","m","7">>>> }

\* main.js:435-436  Chord.detect is called on the notes branch only
DetectChoices(u, st) ==
  IF ModeAfterDetect(st, u.input) = "notes" /\ Len(ValidNotesOf(u.input)) >= 2
  THEN DetectResults ELSE {<<>>}

\* the rows the user grabs or drops on: the two first and the two last of n
DragIndices(n) == {i \in 0..(n - 1) : i < 2 \/ i > n - 3}

\* the roots the user picks in the select, where offered: two offered in both
\* modes, one in major only, one in minor only
KeyRootChoices == {<<"C">>, <<"G">>, <<"D","b">>, <<"G","#">>}

CanEdit == edits.edited < MaxEdits
CountEdit == edits' = [edits EXCEPT !.edited = @ + 1]
CanSet == edits.set < MaxSettings
CountSet == edits' = [edits EXCEPT !.set = @ + 1]
\* adding is held back while both lists are past MaxBeside entries
CanStore(list, other) == Len(other) <= MaxBeside \/ Len(list) < MaxBeside
Calls == <<KEY_DEFINITIONS, noNoteChroma, args, result>>

\* main.js:552  the input listener
InputEvent ==
  /\ CanEdit
  /\ \E value \in UiInputs :
     \E detected \in DetectChoices([ui EXCEPT !.input = value], state) :
       \E r \in {updateChord([ui EXCEPT !.input = value], state, detected)} :
         state' = r.state /\ ui' = r.ui
  /\ op' = "input"
  /\ CountEdit
  /\ UNCHANGED <<Calls, storage>>

\* main.js:553  the change listener of the root select
KeyRootChange ==
  /\ CanSet
  /\ \E root \in Range(ui.rootOptions) \cap KeyRootChoices, detected \in DetectChoices(ui, state) :
       /\ storage' = persistState(storage, [state EXCEPT !.keyRoot = root])
       /\ \E r \in {updateChord([ui EXCEPT !.keyRoot = root],
                                [state EXCEPT !.keyRoot = root], detected)} :
            state' = r.state /\ ui' = r.ui
  /\ op' = "keyRoot"
  /\ CountSet
  /\ UNCHANGED Calls

\* main.js:559-580  the two key-mode buttons
KeyModeClick(mode) ==
  /\ CanSet
  /\ state.keyMode # mode
  /\ storage' = persistState(storage, populateRootSelectState([state EXCEPT !.keyMode = mode], mode))
  /\ \E detected \in DetectChoices(ui, state) :
       \E r \in {updateChord(populateRootSelect(ui, state, mode),
                             populateRootSelectState([state EXCEPT !.keyMode = mode], mode),
                             detected)} :
         state' = r.state /\ ui' = r.ui
  /\ op' = "keyMode"
  /\ CountSet
  /\ UNCHANGED Calls
ModeMajorClick == KeyModeClick("major")
ModeMinorClick == KeyModeClick("minor")

\* main.js:581-598  the two input-mode buttons
InputModeClick(mode) ==
  /\ CanSet
  /\ state.inputMode # mode
  /\ storage' = persistState(storage, [state EXCEPT !.inputMode = mode])
  /\ \E detected \in DetectChoices(ui, [state EXCEPT !.inputMode = mode]) :
       \E r \in {updateChord(ui, [state EXCEPT !.inputMode = mode], detected)} :
         state' = r.state /\ ui' = r.ui
  /\ op' = "inputMode"
  /\ CountSet
  /\ UNCHANGED Calls
ModeChordClick == InputModeClick("chord")
ModeNotesClick == InputModeClick("notes")

\* main.js:342-348  a click on a shown candidate
CandidateClick ==
  /\ CanSet
  /\ \E i \in 1..Len(ui.candidates) :
     \E detected \in DetectChoices([ui EXCEPT !.input = ui.candidates[i].chord],
                                   [state EXCEPT !.inputMode = "chord"]) :
       /\ storage' = persistState(storage, [state EXCEPT !.inputMode = "chord"])
       /\ \E r \in {updateChord([ui EXCEPT !.input = ui.candidates[i].chord],
                                [state EXCEPT !.inputMode = "chord"], detected)} :
            state' = r.state /\ ui' = r.ui
  /\ op' = "candidate"
  /\ CountSet
  /\ UNCHANGED Calls

\* main.js:617-623  a click on a history button
HistoryButtonClick ==
  /\ CanEdit
  /\ \E i \in 1..Len(state.history) :
     \E detected \in DetectChoices([ui EXCEPT !.input = state.history[i]], state) :
       \E r \in {updateChord([ui EXCEPT !.input = state.history[i]], state, detected)} :
         state' = r.state /\ ui' = r.ui
  /\ op' = "historyButton"
  /\ CountEdit
  /\ UNCHANGED <<Calls, storage>>

\* main.js:599
HistoryAdd ==
  /\ CanStore(state.history, state.progressionHistory)
  /\ state' = addHistoryItem(state)
  /\ storage' = StorageAfterHistoryAdd(storage, state)
  /\ op' = "historyAdd"
  /\ UNCHANGED <<Calls, ui, edits>>

\* main.js:600-604
HistoryClear ==
  /\ CanEdit
  /\ state' = [state EXCEPT !.history = <<>>]
  /\ storage' = persistState(storage, [state EXCEPT !.history = <<>>])
  /\ op' = "historyClear"
  /\ CountEdit
  /\ UNCHANGED <<Calls, ui>>

\* main.js:606
ProgressionAdd ==
  /\ Len(state.progression) < MaxProgression
  /\ state' = addProgressionItem(state)
  /\ storage' = StorageAfterProgressionAdd(storage, state)
  /\ op' = "progressionAdd"
  /\ UNCHANGED <<Calls, ui, edits>>

\* main.js:607-613  the progression becomes a new, empty array
ProgressionClear ==
  /\ CanEdit
  /\ state' = [state EXCEPT !.progression = <<>>, !.shared = {}]
  /\ storage' = persistState(storage, [state EXCEPT !.progression = <<>>, !.shared = {}])
  /\ op' = "progressionClear"
  /\ CountEdit
  /\ UNCHANGED <<Calls, ui>>

\* main.js:614
ProgressionSave ==
  /\ CanStore(state.progressionHistory, state.history)
  /\ state' = saveProgression(state)
  /\ storage' = IF Len(state.progression) = 0 THEN storage
                ELSE persistState(storage, saveProgression(state))
  /\ op' = "progressionSave"
  /\ UNCHANGED <<Calls, ui, edits>>

\* main.js:524-533  the end of a drag in the current progression
ProgressionDrag ==
  /\ CanEdit
  /\ \E oldIndex, newIndex \in DragIndices(Len(state.progression)) :
       /\ oldIndex # newIndex
       /\ state' = MutateProgression(state, MoveItem(state.progression, oldIndex, newIndex))
       /\ storage' = persistState(storage,
            MutateProgression(state, MoveItem(state.progression, oldIndex, newIndex)))
  /\ op' = "progressionDrag"
  /\ CountEdit
  /\ UNCHANGED <<Calls, ui>>

\* main.js:539-548  the end of a drag in the saved progressions
ProgressionHistoryDrag ==
  /\ CanEdit
  /\ \E oldIndex, newIndex \in DragIndices(Len(state.progressionHistory)) :
       /\ oldIndex # newIndex
       /\ state' = [state EXCEPT !.progressionHistory = MoveItem(@, oldIndex, newIndex),
                         !.shared = SharedAfterMove(@, Len(state.progressionHistory),
                                                    oldIndex, newIndex)]
       /\ storage' = persistState(storage,
            [state EXCEPT !.progressionHistory = MoveItem(@, oldIndex, newIndex),
                         !.shared = SharedAfterMove(@, Len(state.progressionHistory),
                                                    oldIndex, newIndex)])
  /\ op' = "progressionHistoryDrag"
  /\ CountEdit
  /\ UNCHANGED <<Calls, ui>>

\* main.js:625-631  the remove button of a saved progression
ProgressionHistoryRemove ==
  /\ CanEdit
  /\ \E index \in DragIndices(Len(state.progressionHistory)) :
       /\ state' = [state EXCEPT !.progressionHistory = SpliceOut(@, index),
                         !.shared = SharedAfterRemove(@, index + 1)]
       /\ storage' = persistState(storage,
            [state EXCEPT !.progressionHistory = SpliceOut(@, index),
                         !.shared = SharedAfterRemove(@, index + 1)])
  /\ op' = "progressionHistoryRemove"
  /\ CountEdit
  /\ UNCHANGED <<Calls, ui>>

NextSpell == SpellNotesInKey \/ SpellNotesWithOctaveInKey
NextKey == GetKeyDefinition
NextAnalyze == AnalyzeChordFunction
NextLookup == LookupChord
NextCalls ==
  \/ SpellNotesInKey \/ SpellNotesWithOctaveInKey \/ GetKeyDefinition
  \/ AnalyzeChordFunction \/ LookupChord
NextUi ==
  \/ InputEvent \/ KeyRootChange \/ ModeMajorClick \/ ModeMinorClick
  \/ ModeChordClick \/ ModeNotesClick \/ CandidateClick \/ HistoryButtonClick
  \/ HistoryAdd \/ HistoryClear \/ ProgressionAdd \/ ProgressionClear
  \/ ProgressionSave \/ ProgressionDrag \/ ProgressionHistoryDrag
  \/ ProgressionHistoryRemove
\* main.js:510-520  the page is loaded again: init() runs on what storage holds
Reload ==
  /\ CanEdit
  /\ state' = LoadedPage(storage).state
  /\ ui' = LoadedPage(storage).ui
  /\ op' = "init()"
  /\ CountEdit
  /\ UNCHANGED <<Calls, storage>>

\* main.js:493-499, 633  the floating window is shown and gets the 'open' class
OpenSidebar ==
  /\ ui' = [ui EXCEPT !.floatingWindow = [display |-> "block", open |-> TRUE]]
  /\ op' = "openSidebar"
  /\ UNCHANGED <<Calls, state, storage, edits>>

\* main.js:501-508, 634  the class is removed and a 200 ms timer is started
CloseSidebar ==
  /\ ui.hideTimers < MaxTimers
  /\ ui' = [ui EXCEPT !.floatingWindow.open = FALSE, !.hideTimers = @ + 1]
  /\ op' = "closeSidebar"
  /\ UNCHANGED <<Calls, state, storage, edits>>

\* main.js:504-506  the oldest pending timer fires
HideTimerFires ==
  /\ ui.hideTimers > 0
  /\ ui' = [ui EXCEPT !.floatingWindow.display = "none", !.hideTimers = @ - 1]
  /\ op' = "hideTimer"
  /\ UNCHANGED <<Calls, state, storage, edits>>

\* the floating window with the progression it holds
NextSidebar ==
  \/ OpenSidebar \/ CloseSidebar \/ HideTimerFires
  \/ InputEvent \/ ProgressionAdd \/ ProgressionClear

\* the input side of the page, the lists side, and the key selection
NextKeys ==
  \/ InputEvent \/ KeyRootChange \/ ModeMajorClick \/ ModeMinorClick \/ Reload
NextNotes ==
  \/ InputEvent \/ KeyRootChange \/ ModeMajorClick \/ ModeMinorClick
  \/ ModeChordClick \/ ModeNotesClick \/ CandidateClick \/ ProgressionAdd
NextLists ==
  \/ InputEvent \/ HistoryAdd \/ HistoryClear \/ ProgressionAdd \/ ProgressionClear
  \/ ProgressionSave \/ ProgressionDrag \/ ProgressionHistoryDrag
  \/ ProgressionHistoryRemove
Next == NextCalls \/ NextUi \/ Reload \/ OpenSidebar \/ CloseSidebar \/ HideTimerFires

SpecSpell == InitSpell /\ [][NextSpell]_vars
SpecKey == InitKey /\ [][NextKey]_vars
SpecAnalyze == InitAnalyze /\ [][NextAnalyze]_vars
SpecLookup == InitLookup /\ [][NextLookup]_vars
Spec == Init /\ [][Next]_vars
SpecCatalogue == InitCatalogue /\ [][NextCalls]_vars
SpecUi == InitUi /\ [][NextUi]_vars
SpecNotes == InitUi /\ [][NextNotes]_vars
SpecLists == InitUi /\ [][NextLists]_vars
SpecKeys == InitUi /\ [][NextKeys]_vars
\* the spellers called directly and through the chord lookup
SpecSpelling == (InitSpell \/ InitLookup) /\ [][NextSpell \/ NextLookup]_vars
SpecSidebar == InitUi /\ [][NextSidebar]_vars

(***************************************************************************)
(* The claims.                                                             *)
(***************************************************************************)
Parseable(note) == ~NoteGet(note).empty
ChromaOf(note) == NoteGet(note).chroma
ScaleChromas(keyDefinition) == {ChromaOf(keyDefinition.scale[d]) : d \in 1..Len(keyDefinition.scale)}
KeyIs(keyDefinition, id, mode) == keyDefinition.id = id /\ keyDefinition.mode = mode

\* C1: spelling preserves the chroma: every parseable note handed to
\* spellNotesInKey comes back as a name of the same chroma (0-11), in every key.
C1_ChromaPreserved ==
  op = "spellNotesInKey" =>
    \A i \in 1..Len(args.notes) :
      Parseable(args.notes[i]) =>
        /\ Parseable(result[i])
        /\ ChromaOf(result[i]) = ChromaOf(args.notes[i])
        /\ ChromaOf(result[i])[2] \in 0..11

\* a note that was given another name of its chroma (F -> E# in C# major)
C1_Witness ==
  /\ op = "spellNotesInKey"
  /\ Len(args.notes) = 1
  /\ Parseable(args.notes[1])
  /\ result[1] # NoteGet(args.notes[1]).pc
  /\ ChromaOf(result[1]) = ChromaOf(args.notes[1])

\* C2: diatonic precedence: a note whose chroma is that of a scale note of the
\* key is spelled exactly as that scale note.
C2_DiatonicPrecedence ==
  op = "spellNotesInKey" =>
    \A i \in 1..Len(args.notes) : \A d \in 1..Len(args.keyDefinition.scale) :
      (Parseable(args.notes[i])
         /\ ChromaOf(args.notes[i]) = ChromaOf(args.keyDefinition.scale[d]))
        => result[i] = args.keyDefinition.scale[d]

\* C# major spells F as E#, where both tables say F
C2_Witness ==
  /\ op = "spellNotesInKey"
  /\ KeyIs(args.keyDefinition, <<"C","#">>, "major")
  /\ args.notes = << <<"F">> >>
  /\ result = << <<"E","#">> >>

\* C3: accidental bias: a note whose chroma is outside the scale of the key is
\* spelled from FLAT_NAMES in a flat key and from SHARP_NAMES in a sharp key.
C3_AccidentalBias ==
  op = "spellNotesInKey" =>
    \A i \in 1..Len(args.notes) :
      (Parseable(args.notes[i]) /\ ChromaOf(args.notes[i]) \notin ScaleChromas(args.keyDefinition))
        => result[i] = IF args.keyDefinition.accidental = "flat"
                         THEN FLAT_NAMES[ChromaOf(args.notes[i])[2] + 1]
                         ELSE SHARP_NAMES[ChromaOf(args.notes[i])[2] + 1]

\* F major spells C# as Db
C3_Witness ==
  /\ op = "spellNotesInKey"
  /\ KeyIs(args.keyDefinition, <<"F">>, "major")
  /\ args.notes = << <<"C","#">> >>
  /\ result = << <<"D","b">> >>

HasOctave(note) == Parseable(note) /\ IsNum(NoteGet(note).oct)
HeightOf(note) == NoteGet(note).height[2]

\* C4: both list spellers are element-wise maps: same length, entry i decided
\* by input i and the key alone, an entry with no parseable chroma (for the
\* octave variant: or no octave) returned unchanged, and the octave variant
\* returning the key spelling of the pitch class followed by the octave number.
C4_ElementwiseMaps ==
  /\ op = "spellNotesInKey" =>
       /\ Len(result) = Len(args.notes)
       /\ \A i \in 1..Len(args.notes) :
            /\ result[i] = spellNotesInKey(<<args.notes[i]>>, args.keyDefinition)[1]
            /\ ~Parseable(args.notes[i]) => result[i] = args.notes[i]
  /\ op = "spellNotesWithOctaveInKey" =>
       /\ Len(result) = Len(args.notes)
       /\ \A i \in 1..Len(args.notes) :
            /\ result[i] = spellNotesWithOctaveInKey(<<args.notes[i]>>, args.keyDefinition)[1]
            /\ ~HasOctave(args.notes[i]) => result[i] = args.notes[i]
            /\ HasOctave(args.notes[i]) =>
                 result[i] = spellNotesInKey(<<NoteGet(args.notes[i]).pc>>,
                                             args.keyDefinition)[1]
                             \o TemplateStr(NoteGet(args.notes[i]).oct)

\* C5 as claimed: the octave variant returns a note of the same absolute pitch
\* (semitone number 12 * (octave + 1) + letter offset + accidentals).
C5_SameAbsolutePitch ==
  op = "spellNotesWithOctaveInKey" =>
    \A i \in 1..Len(args.notes) :
      HasOctave(args.notes[i]) =>
        HasOctave(result[i]) /\ HeightOf(result[i]) = HeightOf(args.notes[i])

\* C5 as amended: the octave variant returns a note of the same chroma and the
\* same octave number, so of the same pitch up to whole octaves only.
C5_SameChromaAndOctave ==
  op = "spellNotesWithOctaveInKey" =>
    \A i \in 1..Len(args.notes) :
      HasOctave(args.notes[i]) =>
        /\ HasOctave(result[i])
        /\ ChromaOf(result[i]) = ChromaOf(args.notes[i])
        /\ NoteGet(result[i]).oct = NoteGet(args.notes[i]).oct
        /\ (HeightOf(result[i]) - HeightOf(args.notes[i])) % 12 = 0

\* a re-spelling across the B/C boundary: Gb major turns B4 into Cb4, an octave lower
C5_Witness ==
  /\ op = "spellNotesWithOctaveInKey"
  /\ KeyIs(args.keyDefinition, <<"G","b">>, "major")
  /\ args.notes = << <<"B","4">> >>
  /\ result = << <<"C","b","4">> >>
  /\ HeightOf(result[1]) = HeightOf(args.notes[1]) - 12

\* the (root, mode) pairs of the authored tables
Catalogued(root, mode) ==
  \/ mode = "major" /\ \E i \in 1..Len(MAJOR_KEYS) : MAJOR_KEYS[i].id = root
  \/ mode = "minor" /\ \E i \in 1..Len(MINOR_KEYS) : MINOR_KEYS[i].id = root

\* C6: getKeyDefinition returns the key of that id and mode for each of the
\* 15 + 15 catalogued pairs, and C major, the first entry, for any other pair.
C6_KeyLookup ==
  op = "getKeyDefinition" =>
    IF Catalogued(args.root, args.mode)
      THEN result.id = args.root /\ result.mode = args.mode
      ELSE KeyIs(result, <<"C">>, "major") /\ result = KEY_DEFINITIONS[1]

\* a minor key found under a root that is also a major key, and the fallback
C6_Witness ==
  /\ op = "getKeyDefinition"
  /\ \/ args.root = <<"B","b">> /\ args.mode = "minor" /\ result.label = "Bb minor"
     \/ args.root = <<"H">> /\ args.mode = "minor" /\ result.label = "C major"

KeysOfMode(mode) == {i \in 1..Len(KEY_DEFINITIONS) : KEY_DEFINITIONS[i].mode = mode}

NoDuplicates(seq) == \A i, j \in 1..Len(seq) : seq[i] = seq[j] => i = j

\* C8: MAJOR_ROOTS and MINOR_ROOTS each hold, without duplicates, exactly the
\* ids of the 15 catalogued keys of their mode.
C8_RootLists ==
  /\ NoDuplicates(MAJOR_ROOTS)
  /\ NoDuplicates(MINOR_ROOTS)
  /\ Range(MAJOR_ROOTS) = {KEY_DEFINITIONS[i].id : i \in KeysOfMode("major")}
  /\ Range(MINOR_ROOTS) = {KEY_DEFINITIONS[i].id : i \in KeysOfMode("minor")}
  /\ Len(MAJOR_ROOTS) = 15
  /\ Len(MINOR_ROOTS) = 15

\* the suffixes of a plain triad: major, minor, diminished
PlainSuffixes == {<<>>, <<"m">>, <<"d","i","m">>}

\* C9: a plain chord written on the key's own spelling of its d-th scale note
\* is analyzed to a non-null result with scaleDegree = d, for d in 1..7 and
\* every key.
C9_OwnSpellingDegree ==
  op = "analyzeChordFunction" =>
    \A d \in 1..7 : \A s \in PlainSuffixes :
      args.chordSymbol = args.keyDefinition.scale[d] \o s =>
        result # JsNull /\ result[2].scaleDegree = Num(d)

\* the labels of the degrees 1..7, written out per mode
MajorLabels ==
  << <<"I">>, <<"i","i">>, <<"i","i","i">>, <<"I","V">>, <<"V">>, <<"v","i">>,
     <<"v","i","i","deg">> >>
MinorLabels ==
  << <<"i">>, <<"i","i","deg">>, <<"I","I","I">>, <<"i","v">>, <<"v">>, <<"V","I">>,
     <<"V","I","I">> >>
DiatonicFunctions == {"tonic", "subdominant", "dominant"}
ClassifiedDiatonically ==
  /\ op = "analyzeChordFunction"
  /\ result # JsNull
  /\ result[2].function \in DiatonicFunctions

\* C10: a chord classified diatonically on degree d is labelled I..VII for
\* d = 1..7, in lower case on degrees 2, 3, 6 of a major key and 1, 4, 5 of a
\* minor key, in lower case with a degree sign on degree 7 of a major key and
\* degree 2 of a minor key, and in upper case otherwise.
C10_RomanCasing ==
  ClassifiedDiatonically =>
    /\ IsNum(result[2].scaleDegree)
    /\ result[2].scaleDegree[2] \in 1..7
    /\ result[2].roman =
         IF args.keyDefinition.mode = "major"
           THEN MajorLabels[result[2].scaleDegree[2]]
           ELSE MinorLabels[result[2].scaleDegree[2]]

\* the diminished degree of A minor and of C major
C10_Witness ==
  /\ ClassifiedDiatonically
  /\ args.chordSymbol = <<"B","d","i","m">>
  /\ \/ KeyIs(args.keyDefinition, <<"A">>, "minor") /\ result[2].roman = <<"i","i","deg">>
     \/ KeyIs(args.keyDefinition, <<"C">>, "major") /\ result[2].roman = <<"v","i","i","deg">>

\* the colour that goes with a functional category
ColourOfFunction(f) ==
  IF f = "tonic" THEN "green" ELSE IF f = "subdominant" THEN "blue" ELSE "red"
FunctionOfDegree(d) ==
  IF d \in {1, 3, 6} THEN "tonic" ELSE IF d \in {2, 4} THEN "subdominant" ELSE "dominant"

\* C11: a chord classified diatonically on degree d is tonic/green for d in
\* {1,3,6}, subdominant/blue for d in {2,4} and dominant/red for d in {5,7},
\* in major and in minor keys alike; function and colour always agree.
C11_FunctionAndColour ==
  ClassifiedDiatonically =>
    /\ result[2].scaleDegree[2] \in 1..7
    /\ result[2].function = FunctionOfDegree(result[2].scaleDegree[2])
    /\ result[2].color = ColourOfFunction(result[2].function)

\* the seventh degree of a minor key and the second of a major key
C11_Witness ==
  /\ ClassifiedDiatonically
  /\ \/ /\ KeyIs(args.keyDefinition, <<"A">>, "minor")
        /\ args.chordSymbol = <<"G">>
        /\ result[2].function = "dominant" /\ result[2].color = "red"
     \/ /\ KeyIs(args.keyDefinition, <<"C">>, "major")
        /\ args.chordSymbol = <<"D","m">>
        /\ result[2].function = "subdominant" /\ result[2].color = "blue"

\* the root as written at the head of the analyzed symbol
TypedRoot == SubSeq(args.chordSymbol, 1, RootMatchLen(args.chordSymbol))
IsPlainChord == \E s \in PlainSuffixes : args.chordSymbol = TypedRoot \o s
\* a plain chord was analyzed whose written root is none of the key's scale notes
PlainOffScale ==
  /\ op = "analyzeChordFunction"
  /\ IsPlainChord
  /\ TypedRoot \notin Range(args.keyDefinition.scale)
InCMajor(symbol) ==
  /\ op = "analyzeChordFunction"
  /\ KeyIs(args.keyDefinition, <<"C">>, "major")
  /\ args.chordSymbol = symbol

RootOffset == (ChromaOf(TypedRoot)[2] - ChromaOf(args.keyDefinition.id)[2] + 12) % 12
\* a plain chord in a major key whose root, written with an upper-case letter
\* and at most one accidental, is the lowered third, sixth or seventh
PlainOnLoweredDegree ==
  /\ op = "analyzeChordFunction"
  /\ args.keyDefinition.mode = "major"
  /\ IsPlainChord
  /\ TypedRoot # <<>>
  /\ TypedRoot[1] \in Range(StepLetters)
  /\ Parseable(TypedRoot)
  /\ RootOffset \in {3, 8, 10}
BorrowedLabel(offset) ==
  IF offset = 3 THEN [roman |-> <<"b","I","I","I">>, color |-> "green"]
  ELSE IF offset = 8 THEN [roman |-> <<"b","V","I">>, color |-> "blue"]
  ELSE [roman |-> <<"b","V","I","I">>, color |-> "red"]

\* C13: in every major key a plain chord on degree 3, 6 or 7 of the parallel
\* natural minor (a chroma outside the major scale) is returned as function
\* borrowed, borrowedFrom minor, with bIII/green, bVI/blue, bVII/red, however
\* the root is spelled.
C13_BorrowedFromMinor ==
  PlainOnLoweredDegree =>
    /\ result # JsNull
    /\ result[2].function = "borrowed"
    /\ result[2].borrowedFrom = "minor"
    /\ result[2].roman = BorrowedLabel(RootOffset).roman
    /\ result[2].color = BorrowedLabel(RootOffset).color

\* the positions of a note name in a scale
DegreesOf(name, scale) == {d \in 1..Len(scale) : scale[d] = name}
\* a dominant seventh X7 was analyzed, X written with an upper-case letter
DominantSeventhAnalyzed ==
  /\ op = "analyzeChordFunction"
  /\ TypedRoot # <<>>
  /\ TypedRoot[1] \in Range(StepLetters)
  /\ Parseable(TypedRoot)
  /\ args.chordSymbol = TypedRoot \o <<"7">>
\* the root a perfect fourth above the written root
TargetOfRoot == NoteTranspose(TypedRoot, "4P")
IsSecondaryTo(t) ==
  /\ result # JsNull
  /\ result[2].function = "secondary-dominant"
  /\ result[2].color = "red"
  /\ result[2].targetsDegree = Num(t)
  /\ result[2].roman =
       <<"V", "/">> \o (IF args.keyDefinition.mode = "major" THEN MajorLabels[t]
                        ELSE MinorLabels[t])
IsDiatonicOn(d) ==
  /\ result # JsNull
  /\ result[2].function = FunctionOfDegree(d)
  /\ result[2].scaleDegree = Num(d)
  /\ result[2].roman =
       IF args.keyDefinition.mode = "major" THEN MajorLabels[d] ELSE MinorLabels[d]

\* C14: a dominant seventh X7 whose root is not scale degree 5 and whose
\* target, a perfect fourth above X, is the scale note of degree t in 2..7 is
\* returned as secondary-dominant, red, targetsDegree t, roman V/ followed by
\* the label of t; when the target is no scale note the chord is classified
\* diatonically on its own degree (F7 in C major is IV).
C14_SecondaryDominant ==
  (DominantSeventhAnalyzed /\ 5 \notin DegreesOf(TypedRoot, args.keyDefinition.scale)) =>
    /\ \A t \in 2..7 :
         t \in DegreesOf(TargetOfRoot, args.keyDefinition.scale) => IsSecondaryTo(t)
    /\ DegreesOf(TargetOfRoot, args.keyDefinition.scale) = {} =>
         /\ result # JsNull => result[2].function # "secondary-dominant"
         /\ \A d \in DegreesOf(TypedRoot, args.keyDefinition.scale) : IsDiatonicOn(d)

\* the accepted spellings of the major-seventh, minor-seventh,
\* diminished-seventh and half-diminished qualities
NonDominantSevenths ==
  { <<"m","a","j","7">>, <<"M","7">>, <<"m","a","7">>, <<"m","7">>, <<"m","i","n","7">>,
    <<"-","7">>, <<"d","i","m","7">>, <<"o","7">>, <<"m","7","b","5">>, <<"o-slash">> }
ReturnedSecondary ==
  /\ op = "analyzeChordFunction"
  /\ result # JsNull
  /\ result[2].function = "secondary-dominant"

\* C15: a major-seventh, minor-seventh, diminished-seventh or half-diminished
\* chord, in any accepted spelling of its quality, is never returned as
\* secondary-dominant; only a dominant seventh is.
C15_OnlyDominantSevenths ==
  /\ (\E q \in NonDominantSevenths : args.chordSymbol = TypedRoot \o q) => ~ReturnedSecondary
  /\ ReturnedSecondary => args.chordSymbol = TypedRoot \o <<"7">>

\* C16: in every key the dominant seventh on scale degree 5 is the primary
\* dominant (function dominant, red, V in major, v in minor), never a
\* secondary dominant; and no secondary-dominant result targets degree 1 or
\* has a root of the chroma of degree 5.
C16_PrimaryDominant ==
  /\ (DominantSeventhAnalyzed /\ TypedRoot = args.keyDefinition.scale[5]) =>
       /\ result # JsNull
       /\ result[2].function = "dominant"
       /\ result[2].color = "red"
       /\ result[2].roman = (IF args.keyDefinition.mode = "major" THEN <<"V">> ELSE <<"v">>)
  /\ ReturnedSecondary =>
       /\ result[2].targetsDegree # Num(1)
       /\ ChromaOf(result[2].chordRoot) # ChromaOf(args.keyDefinition.scale[5])

\* the analyzed symbol without parentheses, commas and whitespace
SanitizedSymbol == sanitizeChordInput(args.chordSymbol)
BeginsWithNoteLetter == SanitizedSymbol # <<>> /\ SanitizedSymbol[1] \in NoteLetterChars

\* C17: for every string and every catalogued key analyzeChordFunction
\* completes and returns a result object or null, and it returns null whenever
\* the sanitized input does not begin with a note letter (of either case).
C17_NeverRaises ==
  /\ op = "init" => result = JsUndefined
  /\ op = "analyzeChordFunction" =>
       /\ result = JsNull \/ (IsObj(result) /\ result[2].chordRoot # <<>>)
       /\ ~BeginsWithNoteLetter => result = JsNull

\* an input that is only stripped characters, and one with a letter after a sign
C17_Witness ==
  /\ op = "analyzeChordFunction"
  /\ args.chordSymbol \in {<<" ">>, <<"#","C">>, <<>>}
  /\ result = JsNull

\* the looked-up input without parentheses, commas and whitespace, and the
\* pitches the chord resolver gives for it
CleanedInput == sanitizeChordInput(args.input)
ResolvedPitches == ChordGet(CleanedInput).notes
WhitespaceOnly(s) == \A i \in 1..Len(s) : s[i] = " "
LookedUp == op = "buildChordResult"
ValidLookupIsSpelled ==
  result.status = "valid" =>
    /\ result.notes # <<>>
    /\ Len(result.notes) = Len(ResolvedPitches)
    /\ \A i \in 1..Len(ResolvedPitches) :
         result.notes[i] = spellNoteInKey(ResolvedPitches[i], args.keyDefinition)
    /\ result.function = analyzeChordFunction(CleanedInput, args.keyDefinition)

NotesBranch == state.inputMode = "notes" /\ Len(ValidNotesOf(ui.input)) >= 2
CandidatesShown == ui.chordOutput = "candidates"
ShownKey == getKeyDefinition(state.keyRoot, state.keyMode)
ShownSymbols == {ui.candidates[i].chord : i \in 1..Len(ui.candidates)}
Min3(n) == IF n < 3 THEN n ELSE 3

\* the symbols that 'add to history' and 'add to progression' would store now
WouldStore ==
  IF state.currentChord = JsNull THEN {}
  ELSE {addHistoryItem(state).history[1],
        addProgressionItem(state).progression[Len(state.progression) + 1]}

\* the display half of C19: in notes mode with at least 2 valid note tokens the
\* page shows the first min(3, n) symbols of the detector's list, in order, each
\* with the analyzer's output for that symbol in the selected key
CandidatesAreTopThree ==
  NotesBranch =>
    /\ ui.chordOutput \in {"candidates", "none-detected"}
    /\ Len(ui.candidates) = Min3(Len(ui.detected))
    /\ \A i \in 1..Len(ui.candidates) :
         /\ ui.candidates[i].chord = ui.detected[i]
         /\ ui.candidates[i].function = analyzeChordFunction(ui.detected[i], ShownKey)

\* C19: in notes mode with at least 2 valid note tokens the candidates shown are
\* the first min(3, n) symbols of the detector's ordered result, each annotated
\* with its own analyzer output, and while the candidates are shown (none has
\* been selected) neither 'add to history' nor 'add to progression' would store
\* one of them
C19_NoCandidateCommitted ==
  /\ CandidatesAreTopThree
  /\ CandidatesShown => WouldStore \cap ShownSymbols = {}

\* more candidates detected than shown, under a key the user selected
C19_Witness ==
  /\ NotesBranch /\ CandidatesShown
  /\ Len(ui.detected) = 4 /\ Len(ui.candidates) = 3
  /\ state.keyRoot = <<"G">>
  /\ ui.candidates[3].function # JsNull

(***************************************************************************)
(* C20  the history and the saved progressions: the cap and the insert     *)
(***************************************************************************)
StoredList(key) == IF storage[key] = JsNull THEN <<>> ELSE JsonParse(storage[key])

\* new is old with item put at index 0: the others follow in their order, and
\* a list that was full has lost its last entry
InsertedAtFront(old, new, item, limit) ==
  /\ Len(new) = (IF Len(old) < limit THEN Len(old) + 1 ELSE limit)
  /\ new[1] = item
  /\ \A i \in 2..Len(new) : new[i] = old[i - 1]

ListsWithinCap ==
  /\ Len(state.history) <= 20
  /\ Len(state.progressionHistory) <= 20
  /\ Len(StoredList(STORAGE_KEYS.HISTORY)) <= 20
  /\ Len(StoredList(STORAGE_KEYS.PROGRESSION_HISTORY)) <= 20

HistoryInsert ==
  (op' = "historyAdd" /\ state.currentChord # JsNull) =>
    InsertedAtFront(state.history, state'.history, state.currentChord[2].symbol, 20)

SavedInsert ==
  (op' = "progressionSave" /\ Len(state.progression) > 0) =>
    InsertedAtFront(state.progressionHistory, state'.progressionHistory,
                    state.progression, 20)

\* a remove or a drag never lengthens the saved list
SavedEdit ==
  op' \in {"progressionHistoryDrag", "progressionHistoryRemove"} =>
    Len(state'.progressionHistory) <= Len(state.progressionHistory)

\* C20: starting from empty storage, after any sequence of add to history, clear
\* history, add to progression, save progression, remove saved progression and
\* drag reorder, the history and the saved-progression list each hold at most 20
\* entries; an insert puts the new entry at index 0, keeps the relative order of
\* the others and, when the list was full, drops the last entry
C20_BoundedLists ==
  /\ []ListsWithinCap
  /\ [][HistoryInsert /\ SavedInsert /\ SavedEdit]_vars

\* a full history whose newest entry differs from the ones below it has just
\* been added to
C20_Witness ==
  /\ op = "historyAdd"
  /\ Len(state.history) = 20
  /\ state.history[1] # state.history[2]
  /\ state.history[2] = state.history[20]

\* the same for the saved progressions
C20_WitnessSaved ==
  /\ op = "progressionSave"
  /\ Len(state.progressionHistory) = 20
  /\ state.progressionHistory[1] # state.progressionHistory[20]

(***************************************************************************)
(* C21  the history holds no chord symbol twice                            *)
(***************************************************************************)
\* C21: starting from empty storage, after any sequence of add-to-history
\* operations no chord symbol occurs more than once in the history list
C21_HistoryDeduplicated == NoDuplicates(state.history)

(***************************************************************************)
(* C22  the selected root is always one that the catalogue holds           *)
(***************************************************************************)
SelectedKey == getKeyDefinition(state.keyRoot, state.keyMode)

\* every root the select offers for a mode is looked up as that very key
OfferedRootsAreKeys ==
  \A mode \in {"major", "minor"} : \A i \in 1..Len(RootsOfMode(mode)) :
    /\ getKeyDefinition(RootsOfMode(mode)[i], mode).id = RootsOfMode(mode)[i]
    /\ getKeyDefinition(RootsOfMode(mode)[i], mode).mode = mode

\* C22: starting from empty storage or storage written by the application, after
\* initialisation and after any sequence of root-select changes and major/minor
\* toggles, state.keyRoot is one of the roots offered for state.keyMode and
\* getKeyDefinition(state.keyRoot, state.keyMode) returns the key with exactly
\* that id and mode
C22_SelectedKeyIsCatalogued ==
  /\ state.keyMode \in {"major", "minor"}
  /\ state.keyRoot \in Range(RootsOfMode(state.keyMode))
  /\ ui.rootOptions = RootsOfMode(state.keyMode)
  /\ ui.keyRoot = state.keyRoot
  /\ SelectedKey.id = state.keyRoot
  /\ SelectedKey.mode = state.keyMode
  /\ OfferedRootsAreKeys

\* a root offered in minor only was selected and the page was loaded again
\* from what the application stored
C22_Witness ==
  /\ op = "init()"
  /\ state.keyMode = "minor"
  /\ state.keyRoot = <<"G","#">>
  /\ <<"G","#">> \notin Range(MAJOR_ROOTS)
  /\ SelectedKey.label = "G# minor"

(***************************************************************************)
(* C23  a fresh state built from storage equals the running state          *)
(***************************************************************************)
\* the five fields that persistState writes
SavedFieldsPersisted ==
  /\ createState(storage).history = state.history
  /\ createState(storage).progression = state.progression
  /\ createState(storage).progressionHistory = state.progressionHistory
  /\ createState(storage).keyRoot = state.keyRoot
  /\ createState(storage).keyMode = state.keyMode

\* C23: after any event handler that changes history, progression, saved
\* progressions, key root, key mode or input mode has completed, createState on
\* the same storage yields the same values for all six fields
C23_StateIsPersisted ==
  /\ SavedFieldsPersisted
  /\ createState(storage).inputMode = state.inputMode

(***************************************************************************)
(* C24  a saved progression is a snapshot                                  *)
(***************************************************************************)
SnapshotKept ==
  op' \in {"progressionAdd", "progressionDrag", "progressionClear"} =>
    state'.progressionHistory = state.progressionHistory

EmptySaveChangesNothing ==
  (op' = "progressionSave" /\ Len(state.progression) = 0) =>
    /\ state' = state
    /\ storage' = storage

\* C24: after saveProgression, no later operation on the current progression
\* (adding a chord, drag-reordering it, clearing it) changes any entry of the
\* saved-progression list, and saveProgression with an empty current
\* progression changes nothing
C24_SavedIsSnapshot == [][SnapshotKept /\ EmptySaveChangesNothing]_vars

\* a chord was added to the progression after it had been saved
C24_Witness ==
  /\ op = "progressionAdd"
  /\ Len(state.progressionHistory) >= 1
  /\ Len(state.progression) = 2
  /\ Len(state.progressionHistory[1]) = 1
  /\ state.progressionHistory[1][1] = state.progression[1]

(***************************************************************************)
(* C25  the current chord in chord mode                                    *)
(***************************************************************************)
ChordMode == state.inputMode = "chord"
\* the lookup of what the input box holds, in the key that is selected now
LookupNow == buildChordResult(sanitizeChordInput(ui.input), SelectedKey)

CurrentChordIsLookup ==
  /\ state.currentChord # JsNull <=> LookupNow.status = "valid"
  /\ LookupNow.status = "valid" =>
       /\ state.currentChord[2].symbol = LookupNow.symbol
       /\ state.currentChord[2].symbol = ChordGet(sanitizeChordInput(ui.input)).symbol
       /\ state.currentChord[2].notes = LookupNow.notes
       /\ state.currentChord[2].notes =
            spellNotesInKey(ChordGet(sanitizeChordInput(ui.input)).notes, SelectedKey)

AddsIgnoreNoChord ==
  state.currentChord = JsNull =>
    /\ addHistoryItem(state) = state
    /\ addProgressionItem(state) = state
    /\ StorageAfterHistoryAdd(storage, state) = storage
    /\ StorageAfterProgressionAdd(storage, state) = storage

\* C25: after every updateChord in chord mode, state.currentChord is non-null
\* exactly when the current input resolved with status 'valid', and then holds
\* that result's symbol and notes spelled for the currently selected key (also
\* after a key-root or mode change); when currentChord is null, addHistoryItem
\* and addProgressionItem leave history, progression and storage unchanged
C25_CurrentChordIsLookup ==
  /\ ChordMode => CurrentChordIsLookup
  /\ AddsIgnoreNoChord

\* E7 looked up, then a key selected that spells its third as a flat
C25_Witness ==
  /\ ChordMode
  /\ op = "keyRoot"
  /\ ui.input = <<"E","7">>
  /\ state.keyRoot = <<"D","b">>
  /\ state.currentChord # JsNull
  /\ state.currentChord[2].notes[2] = <<"A","b">>
  /\ ChordGet(<<"E","7">>).notes[2] = <<"G","#">>

(***************************************************************************)
(* C26  input-mode switching                                               *)
(***************************************************************************)
\* the output area holds what renderDetectedChords wrote
DetectorConsulted == ui.chordOutput \in {"candidates", "none-detected"}

ThreeNotesMeanNotesMode ==
  Len(ValidNotesOf(ui.input)) >= 3 => state.inputMode = "notes"

DetectorIffNotesBranch == DetectorConsulted <=> NotesBranch

\* the handlers in which only updateChord can change the input mode
NeverBackToChord ==
  (op' \in {"input", "keyRoot", "keyMode"} /\ state.inputMode = "notes") =>
    state'.inputMode = "notes"

\* C26: after every updateChord an input with at least 3 valid note tokens
\* leaves state.inputMode = 'notes' (also right after a click on the chord-mode
\* button), updateChord never changes inputMode from 'notes' to 'chord', and the
\* chord detector is consulted exactly when inputMode is 'notes' and the input
\* has at least 2 valid note tokens
C26_InputModeSwitching ==
  /\ [](ThreeNotesMeanNotesMode /\ DetectorIffNotesBranch)
  /\ [][NeverBackToChord]_vars

\* three notes in the input box and a click on the chord-mode button: the page
\* is in notes mode again and the detector has been consulted
C26_Witness ==
  /\ op = "inputMode"
  /\ Len(ValidNotesOf(ui.input)) >= 3
  /\ state.inputMode = "notes"
  /\ DetectorConsulted

(***************************************************************************)
(* C27  the floating window and its hide timer                             *)
(***************************************************************************)
\* C27: for any interleaving of openSidebar, closeSidebar and the 200 ms hide
\* timer that closeSidebar schedules, once no timer is pending the floating
\* window is displayed (display 'block') if and only if it carries the 'open'
\* class
C27_DisplayedIffOpen ==
  ui.hideTimers = 0 =>
    (ui.floatingWindow.display = "block" <=> ui.floatingWindow.open)

(***************************************************************************)
(* C28  spelling a spelled note again changes nothing                      *)
(***************************************************************************)
RespelledUnchanged ==
  op = "spellNotesInKey" =>
    \A i \in 1..Len(args.notes) :
      Parseable(args.notes[i]) =>
        spellNoteInKey(result[i], args.keyDefinition) = result[i]

OctaveFourAppended ==
  (op = "buildChordResult" /\ result.status = "valid") =>
    /\ Len(result.notesWithOctave) = Len(result.notes)
    /\ \A i \in 1..Len(result.notes) :
         result.notesWithOctave[i] = result.notes[i] \o <<"4">>

\* C28: for every catalogued key and every parseable note, spelling an
\* already-spelled note again in the same key returns it unchanged;
\* consequently in every 'valid' chord result notesWithOctave[i] equals
\* notes[i] followed by '4' for all i
C28_SpellingIdempotent == RespelledUnchanged /\ OctaveFourAppended

\* a chord whose third is respelled by the key: the octave form follows it
C28_Witness ==
  /\ op = "buildChordResult"
  /\ result.status = "valid"
  /\ \E i \in 1..Len(result.notes) :
       /\ result.notes[i] # ChordGet(sanitizeChordInput(args.input)).notes[i]
       /\ result.notesWithOctave[i] = result.notes[i] \o <<"4">>

(***************************************************************************)
(* C29  the authored scales                                                *)
(***************************************************************************)
MajorSteps == <<2, 2, 1, 2, 2, 2>>
MinorSteps == <<2, 1, 2, 2, 1, 2>>
StepsOfMode(mode) == IF mode = "minor" THEN MinorSteps ELSE MajorSteps
LetterStep(note) == StepOf(<<note[1]>>)
HasChar(note, c) == \E p \in 1..Len(note) : note[p] = c

ScaleStartsOnId(key) == Len(key.scale) = 7 /\ key.scale[1] = key.id
ScaleLettersAscend(key) ==
  \A d \in 1..6 : LetterStep(key.scale[d + 1]) = (LetterStep(key.scale[d]) + 1) % 7
ScaleStepsOfMode(key) ==
  \A d \in 1..6 :
    (ChromaOf(key.scale[d + 1])[2] - ChromaOf(key.scale[d])[2] + 12) % 12
      = StepsOfMode(key.mode)[d]
ScaleKeepsBias(key) ==
  \A d \in 1..7 :
    /\ key.accidental = "sharp" => ~HasChar(key.scale[d], "b")
    /\ key.accidental = "flat" => ~HasChar(key.scale[d], "#")

\* C29: every authored scale starts on the key's id, uses each letter A-G once
\* in ascending cyclic order, has chroma steps 2,2,1,2,2,2 (major) or
\* 2,1,2,2,1,2 (minor), and holds no flats in a sharp-bias key and no sharps in
\* a flat-bias key
C29_AuthoredScales ==
  \A k \in 1..Len(KEY_DEFINITIONS) :
    /\ ScaleStartsOnId(KEY_DEFINITIONS[k])
    /\ ScaleLettersAscend(KEY_DEFINITIONS[k])
    /\ ScaleStepsOfMode(KEY_DEFINITIONS[k])
    /\ ScaleKeepsBias(KEY_DEFINITIONS[k])

\* getKeyDefinition has handed out the C# major key, whose authored scale
\* spells chroma 5 as E# and chroma 0 as B#, and it meets the four conditions
C29_Witness ==
  /\ op = "getKeyDefinition"
  /\ result.id = <<"C", "#">>
  /\ result.mode = "major"
  /\ result.accidental = "sharp"
  /\ result.scale[3] = <<"E", "#">>
  /\ result.scale[7] = <<"B", "#">>
  /\ ScaleStartsOnId(result)
  /\ ScaleLettersAscend(result)
  /\ ScaleStepsOfMode(result)
  /\ ScaleKeepsBias(result)

LoweredLabels == {<<"b","I","I","I">>, <<"b","V","I">>, <<"b","V","I","I">>}
\* the analyzer has returned a result whose function is 'borrowed'
BorrowedReturned ==
  /\ op = "analyzeChordFunction"
  /\ result # JsNull
  /\ result[2].function = "borrowed"
\* degrees 1, 2, 4 and 5 of the parallel minor scale of every major key have
\* the chroma of a note of that major scale
SharedDegreesInMajor ==
  \A k \in 1..Len(KEY_DEFINITIONS) :
    KEY_DEFINITIONS[k].mode = "major" =>
      \A d \in {1, 2, 4, 5} :
        ChromaOf(buildParallelMinorScale(KEY_DEFINITIONS[k].id)[d])
          \in ScaleChromas(KEY_DEFINITIONS[k])

=============================================================================
